---- MODULE Spec2Model ----
(***************************************************************************)
(* The Edge Runtime Supervisor of kuksa-syncer/syncer.py: the command      *)
(* dispatcher messageToKit, the registries lsOfRunner and                  *)
(* lsOfApiSubscriber, the mock signal file, and the periodic loops         *)
(* ticker, ticker_fast and ticker_5s, all run by one asyncio event loop.   *)
(* One action is one stretch of code between two suspension points.        *)
(***************************************************************************)
EXTENDS Integers, Sequences, FiniteSets, TLC

VARIABLES
    now,                \* time.time(), in seconds
    brokerUp,           \* the databroker accepts connections
    lsOfApiSubscriber,  \* the dict, as its entries in insertion order
    lsOfRunner,         \* the list of runner dicts
    nextProc,           \* the next process handle subpiper returns
    killed,             \* the handles on which kill() has been called
    mockFile,           \* /home/dev/ws/mock/signals.json
    providerUp,         \* a mockprovider.py process is running
    stopRun,            \* the stop_python_app handler suspended in its loop
    binRun,             \* the run_bin_app handler suspended in its sleep
    killRaised,         \* the handles in lsOfRunner on which kill() has raised
    connected,          \* client.connected of the module's VSSClient
    curVal,             \* the current value the databroker holds for each path
    poll,               \* ticker_fast: where it is suspended, and its iterator
    pollOut,            \* the apis-value replies of the present ticker_fast round
    pollReads,          \* the get_current_values calls of the present round
    pollSeen,           \* sessions and paths changed, "down" if the databroker
                        \* was down, while the present round ran
    pollMet,            \* the steps of others that fell into the present round
    vehicle,            \* /home/dev/python-packages/vehicle, the accessor model
    vss,                \* /home/dev/ws/vss.json
    gen,                \* the generate_vehicle_model handler: where it is
                        \* suspended, what it was sent, the files as it found them
    probe,              \* a call of wait_for_databroker_ready: what the probes
                        \* will meet, max_attempts, the outcome
    svc,                \* the mock service: its idle flag, last activity time,
                        \* pending events, and where main_loop is
    storeCall,          \* per handler task: how far its call of appendMockSignal
                        \* or modifyMockSignal has come, and what it read
    report,             \* ticker_5s: where it is suspended, its iterator, and
                        \* lastLstRunString and lastNoApiSubscriber
    work,               \* the working directory's app/ tree, and the handlers of
                        \* run_python_app and deploy_request that are suspended
    lastCmd,            \* the step taken last: command, session, outcome
    fx,                 \* what the last step did to the mock file and provider
    replies             \* the events the last step emitted

runnerVars == <<lsOfRunner, nextProc, killed, stopRun, binRun, killRaised>>
mockVars == <<mockFile, providerUp>>
pollVars == <<connected, curVal, poll>>
pollRec == <<pollOut, pollReads, pollSeen, pollMet>>
modelVars == <<vehicle, vss, gen>>
sideVars == <<probe, report, storeCall, svc, work>>

vars == <<now, brokerUp, lsOfApiSubscriber, runnerVars, mockVars, pollVars,
          pollRec, modelVars, sideVars, lastCmd, fx, replies>>

----------------------------------------------------------------------------
(* Bounds and input sets *)

MaxTime == 122          \* the clock's end where subscribers are watched
MaxRunnerTime == 181    \* the clock's end where runners are watched
MaxSpawn == 3
MaxRunners == 3
MaxProbes == 3          \* probes a backend is asked to answer
MaxInterleave == 2      \* commands and changes that fall into one ticker_fast round

TimeSteps == {60, 61}
RunnerTimeSteps == {180, 181}

Sessions == {"A", "B"}

Catalog == {"Vehicle.Speed", "Vehicle.Width"}
Paths == Catalog \cup {"Vehicle.Bogus"}

ApiLists == { <<>>, <<"Vehicle.Speed">>, <<"Vehicle.Width", "Vehicle.Speed">>,
              <<"Vehicle.Bogus">> }

UsedLists == { <<>>, <<"Vehicle.Speed">> }

Values == {0, 42}

\* data["apis"] where ticker_fast is watched
PollLists == { <<>>, <<"Vehicle.Speed">>, <<"Vehicle.Bogus", "Vehicle.Speed">> }
PollPaths == {"Vehicle.Speed"}

Entry(path, value) == [signal |-> path, value |-> value]

\* data["data"] of set_mock_signals
EntryLists == { <<>>,
                <<Entry("Vehicle.Speed", "1")>>,
                <<Entry("Vehicle.Width", "2"), Entry("Vehicle.Speed", "1")>>,
                <<Entry("Vehicle.Speed", "1"), Entry("Vehicle.Width", "2")>>,
                <<Entry("Vehicle.Bogus", "3"), Entry("Vehicle.Speed", "1")>>,
                <<Entry("Vehicle.Speed", "1"), Entry("Vehicle.Speed", "5")>> }

\* data["data"] of set_mock_signals where the vehicle model is watched
UsedEntryLists == { <<>>, <<Entry("Vehicle.Speed", "1")>> }

MaxPending == 2         \* events in _pending_event_list
MaxSvcTime == 92        \* last reading of the mock service's perf_counter
SvcTimeSteps == {30, 31}

MOCK_IDLE_THRESHOLD == 30  \* default of _idle_threshold, in seconds

DEFAULT_ATTEMPTS == 10  \* max_attempts=10 of wait_for_databroker_ready

TIME_TO_KEEP_SUBSCRIBER_ALIVE == 60
TIME_TO_KEEP_RUNNER_ALIVE == 3 * 60

----------------------------------------------------------------------------
(* Helpers on sequences *)

Range(s) == { s[i] : i \in 1..Len(s) }

RemoveAt(s, i) == SubSeq(s, 1, i - 1) \o SubSeq(s, i + 1, Len(s))

Keys(d) == { d[i].sid : i \in 1..Len(d) }

IndexOf(d, k) == CHOOSE i \in 1..Len(d) : d[i].sid = k

ReplyData(to, cmd, result, data) ==
    [to |-> to, cmd |-> cmd, result |-> result, data |-> data]

Reply(to, cmd, result) == ReplyData(to, cmd, result, <<>>)

\* The label of a step: cmd and from are the envelope's, ret is what the
\* handler returned ("raise": an exception left it; "await": it is suspended),
\* arg the case the step met, apis and data the lists the envelope carried.
Step(cmd, from, ret) ==
    [cmd |-> cmd, from |-> from, ret |-> ret, arg |-> "-", apis |-> <<>>,
     data |-> <<>>]

----------------------------------------------------------------------------
(* ticker_fast's view of the registry *)

PollIdle == [pc |-> "sleep", used |-> 0, pos |-> 0, sid |-> "-", apis |-> <<>>,
             k |-> 0, vals |-> <<>>]

PollRunning == poll.pc \in {"read", "emit"}

\* What a round in progress has seen change; the record of a finished
\* round is dropped by the first step that follows it.
Seen(x) == IF PollRunning THEN pollSeen \cup x ELSE {}

PollRecord(x) ==
    /\ pollSeen' = Seen(x)
    /\ pollMet' = IF PollRunning THEN pollMet + 1 ELSE 0
    /\ pollOut' = IF PollRunning THEN pollOut ELSE <<>>
    /\ pollReads' = IF PollRunning THEN pollReads ELSE 0

\* The dict iterator of `for client_id in lsOfApiSubscriber` keeps its place
\* in the dict's entry table: deleting entries it has passed leaves it
\* pointing at the same next entry.
CursorAfterDel(p, gone) ==
    IF p.pc \in {"read", "emit"}
    THEN [p EXCEPT !.pos = @ - Cardinality({ i \in gone : i <= p.pos })]
    ELSE p

\* A handler of generate_vehicle_model that is under way learns nothing of
\* what other commands write to the mock file; touched records that one did.
GenTouch ==
    gen' = IF gen.pc # "idle" /\ mockFile' # mockFile
           THEN [gen EXCEPT !.touched = TRUE]
           ELSE gen

GenRecord ==
    /\ GenTouch
    /\ UNCHANGED <<vehicle, vss, sideVars>>

----------------------------------------------------------------------------
(* The mock signal file and the mock provider process *)

MockNames(mocks) == { mocks[i].signal : i \in 1..Len(mocks) }

\* kclient.get_metadata([path]) is not None: unknown paths raise, which the
\* callers catch and treat as "not a signal".
HasMetadata(path) == path \in Catalog

\* restartMockProvider: stopMockService, sleep, startMockService
RestartFx == <<"stop", "start">>

\* An offer that appends absent paths without asking for metadata
RECURSIVE AppendLoopUnchecked(_, _, _)
AppendLoopUnchecked(signals, i, mocks) ==
    IF i > Len(signals) THEN mocks
    ELSE IF signals[i] \notin MockNames(mocks)
         THEN AppendLoopUnchecked(signals, i + 1,
                                  Append(mocks, [signal |-> signals[i], value |-> "0"]))
         ELSE AppendLoopUnchecked(signals, i + 1, mocks)

RECURSIVE AppendLoop(_, _, _)
AppendLoop(signals, i, mocks) ==
    IF i > Len(signals) THEN mocks
    ELSE IF signals[i] \notin MockNames(mocks) /\ HasMetadata(signals[i])
         THEN AppendLoop(signals, i + 1,
                         Append(mocks, [signal |-> signals[i], value |-> "0"]))
         ELSE AppendLoop(signals, i + 1, mocks)

\* appendMockSignal that restarts the provider whether or not it appended
appendMockSignalAlwaysRestart(signals, file, up) ==
    IF Len(signals) <= 0
    THEN [file |-> file, fx |-> <<>>, raised |-> FALSE]
    ELSE IF ~up
    THEN [file |-> file, fx |-> <<>>, raised |-> TRUE]
    ELSE LET cur    == IF file.blank THEN <<>> ELSE file.mocks
             after  == AppendLoop(signals, 1, cur)
             hasNew == Len(after) > Len(cur)
         IN  IF hasNew
             THEN [file |-> [blank |-> FALSE, mocks |-> after],
                   fx |-> <<"write">> \o RestartFx, raised |-> FALSE]
             ELSE [file |-> file, fx |-> RestartFx, raised |-> FALSE]

\* appendMockSignal(signals): the file after the call, the effects, and
\* whether the call raised.
appendMockSignal(signals, file, up) ==
    IF Len(signals) <= 0
    THEN [file |-> file, fx |-> <<>>, raised |-> FALSE]
    ELSE IF ~up
    THEN [file |-> file, fx |-> <<>>, raised |-> TRUE]
    ELSE LET cur    == IF file.blank THEN <<>> ELSE file.mocks
             after  == AppendLoop(signals, 1, cur)
             hasNew == Len(after) > Len(cur)
         IN  IF hasNew
             THEN [file |-> [blank |-> FALSE, mocks |-> after],
                   fx |-> <<"write">> \o RestartFx, raised |-> FALSE]
             ELSE [file |-> file, fx |-> <<>>, raised |-> FALSE]

\* modifyMockSignal(input_str): open(mock_signal_path, 'w') truncates the
\* file before anything else; the KClient context raises when the databroker
\* refuses the connection, which leaves the file empty; otherwise the
\* entries with metadata are dumped in input order.
modifyMockSignal(input_signals, up) ==
    IF ~up
    THEN [file |-> [blank |-> TRUE, mocks |-> <<>>], raised |-> TRUE]
    ELSE [file |-> [blank |-> FALSE,
                    mocks |-> SelectSeq(input_signals,
                                        LAMBDA signal : HasMetadata(signal.signal))],
          raised |-> FALSE]

\* listMockSignal(): json.load of the file; an empty file is no JSON
\* document and json.load raises.
listMockSignal(file) ==
    IF file.blank
    THEN [data |-> <<>>, raised |-> TRUE]
    ELSE [data |-> file.mocks, raised |-> FALSE]

\* set_mock_signals: modifyMockSignal, listMockSignal, restartMockProvider,
\* then the reply that echoes the file.
SetMockSignals(s, entries) ==
    LET m == modifyMockSignal(entries, brokerUp)
    IN  /\ mockFile' = m.file
        /\ IF m.raised
           THEN /\ fx' = <<"truncate">>
                /\ replies' = <<>>
                /\ lastCmd' = [Step("set_mock_signals", s, "raise") EXCEPT
                                   !.data = entries]
                /\ UNCHANGED providerUp
           ELSE /\ fx' = <<"write">> \o RestartFx
                /\ providerUp' = TRUE
                /\ replies' = <<ReplyData(s, "set_mock_signals", "Successful",
                                          listMockSignal(m.file).data)>>
                /\ lastCmd' = [Step("set_mock_signals", s, "0") EXCEPT
                                   !.data = entries]
        /\ PollRecord({})
        /\ GenRecord
        /\ UNCHANGED <<now, brokerUp, lsOfApiSubscriber, runnerVars, pollVars>>

\* list_mock_signal: listMockSignal, then the reply with the file's entries
ListMockSignal(s) ==
    LET l == listMockSignal(mockFile)
    IN  /\ IF l.raised
           THEN /\ replies' = <<>>
                /\ lastCmd' = Step("list_mock_signal", s, "raise")
           ELSE /\ replies' = <<ReplyData(s, "list_mock_signal", "Successful",
                                          l.data)>>
                /\ lastCmd' = Step("list_mock_signal", s, "0")
        /\ fx' = <<>>
        /\ PollRecord({})
        /\ UNCHANGED <<modelVars, sideVars, now, brokerUp, lsOfApiSubscriber, runnerVars, mockVars,
                       pollVars>>

----------------------------------------------------------------------------
(* Subscriber registry: subscribe_apis, unsubscribe_apis *)

\* Upsert that merges the new list into the old one
UpsertMerge(d, k, v) ==
    IF k \in Keys(d)
    THEN [d EXCEPT ![IndexOf(d, k)] =
              [sid |-> k, from |-> v.from, apis |-> @.apis \o v.apis]]
    ELSE Append(d, [sid |-> k, from |-> v.from, apis |-> v.apis])

\* An assignment that leaves the "from" of an entry already there
UpsertKeepFrom(d, k, v) ==
    IF k \in Keys(d)
    THEN [d EXCEPT ![IndexOf(d, k)] = [sid |-> k, from |-> @.from, apis |-> v.apis]]
    ELSE Append(d, [sid |-> k, from |-> v.from, apis |-> v.apis])

Upsert(d, k, v) ==
    IF k \in Keys(d)
    THEN [d EXCEPT ![IndexOf(d, k)] = [sid |-> k, from |-> v.from, apis |-> v.apis]]
    ELSE Append(d, [sid |-> k, from |-> v.from, apis |-> v.apis])

DelKey(d, k) == RemoveAt(d, IndexOf(d, k))

SubscribeApis(s, present, apis) ==
    /\ IF present
       THEN LET off == IF Len(apis) > 0
                       THEN appendMockSignal(apis, mockFile, brokerUp)
                       ELSE [file |-> mockFile, fx |-> <<>>, raised |-> FALSE]
            IN  /\ lsOfApiSubscriber' =
                       Upsert(lsOfApiSubscriber, s, [from |-> now, apis |-> apis])
                /\ mockFile' = off.file
                /\ fx' = off.fx
                /\ providerUp' = IF off.fx # <<>> THEN TRUE ELSE providerUp
                /\ replies' = <<Reply(s, "subscribe_apis", "Successful")>>
                /\ PollRecord({s})
       ELSE /\ UNCHANGED <<lsOfApiSubscriber, mockFile, providerUp>>
            /\ PollRecord({})
            /\ fx' = <<>>
            /\ replies' = <<>>
    /\ lastCmd' = [Step("subscribe_apis", s, "0") EXCEPT
                       !.arg = IF ~present THEN "None"
                               ELSE IF s \notin Keys(lsOfApiSubscriber) THEN "new"
                               ELSE IF lsOfApiSubscriber[IndexOf(lsOfApiSubscriber, s)].apis
                                          = apis THEN "same"
                               ELSE "other",
                       !.apis = IF present THEN apis ELSE <<>>]
    /\ GenRecord
    /\ UNCHANGED <<now, brokerUp, runnerVars, pollVars>>

UnsubscribeApis(s) ==
    /\ IF s \in Keys(lsOfApiSubscriber)
       THEN /\ lsOfApiSubscriber' = DelKey(lsOfApiSubscriber, s)
            /\ poll' = CursorAfterDel(poll, {IndexOf(lsOfApiSubscriber, s)})
            /\ PollRecord({s})
            /\ replies' = <<Reply(s, "unsubscribe_apis", "Successful")>>
            /\ lastCmd' = [Step("unsubscribe_apis", s, "0") EXCEPT !.arg = "present"]
       ELSE \* del on an absent key: KeyError leaves the handler
            /\ UNCHANGED <<lsOfApiSubscriber, poll>>
            /\ PollRecord({})
            /\ replies' = <<>>
            /\ lastCmd' = [Step("unsubscribe_apis", s, "raise") EXCEPT !.arg = "absent"]
    /\ report' = CursorAfterDel(report, IF s \in Keys(lsOfApiSubscriber)
                                        THEN {IndexOf(lsOfApiSubscriber, s)}
                                        ELSE {})
    /\ fx' = <<>>
    /\ UNCHANGED <<modelVars, work, svc, probe, storeCall, now, brokerUp, runnerVars, mockVars,
                   connected, curVal>>

----------------------------------------------------------------------------
(* The dispatcher: the chain of tests on data["cmd"] *)

RecognizedCmds ==
    {"deploy_request", "deploy-request", "subscribe_apis", "unsubscribe_apis",
     "list_mock_signal", "set_mock_signals", "write_signals_value",
     "reset_signals_value", "generate_vehicle_model", "revert_vehicle_model",
     "list_python_packages", "install_python_packages", "run_python_app",
     "run_bin_app", "stop_python_app", "get-runtime-info"}

\* data["cmd"] where the end of the chain is watched
OtherCmds == {"get-runtime-info", "bogus", "SUBSCRIBE_APIS", ""}

\* A chain whose last branch takes whatever the others left
DispatchLastTakesAll(cmd) ==
    IF cmd \in RecognizedCmds \ {"get-runtime-info"} THEN cmd
    ELSE "get-runtime-info"

\* The branch messageToKit takes: the one whose test equals cmd, or none
Dispatch(cmd) == IF cmd \in RecognizedCmds THEN cmd ELSE "none"

\* convertLsOfRunnerToJson: the runner dicts without their process handles
convertLsOfRunnerToJson(list) ==
    [i \in 1..Len(list) |-> [appName |-> list[i].appName,
                             request_from |-> list[i].request_from,
                             from |-> list[i].from]]

\* The last branch, get-runtime-info, and the return 1 after the chain
OtherCommand(s, cmd) ==
    /\ IF Dispatch(cmd) = "get-runtime-info"
       THEN /\ replies' = <<ReplyData(s, "get-runtime-info", "-",
                                      <<convertLsOfRunnerToJson(lsOfRunner),
                                        lsOfApiSubscriber>>)>>
            /\ lastCmd' = Step(cmd, s, "0")
       ELSE /\ replies' = <<>>
            /\ lastCmd' = Step(cmd, s, "1")
    /\ fx' = <<>>
    /\ PollRecord({})
    /\ UNCHANGED <<modelVars, sideVars, now, brokerUp, lsOfApiSubscriber, runnerVars, mockVars,
                   pollVars>>

----------------------------------------------------------------------------
(* Runner registry: run_python_app, stop_python_app *)

Handles(list) == { list[i].runner : i \in 1..Len(list) }

\* A test that never finds the field missing
MissingFieldNever(has) == FALSE

\* `"code" not in data["data"]`, `"data" not in data`
MissingField(has) == ~has

\* send_app_run_reply: the event a run_python_app handler emits on its way
AppRunReply(master_id, is_done, retcode, content) ==
    [to |-> master_id, cmd |-> "run_python_app", result |-> content,
     data |-> <<>>, isDone |-> is_done, code |-> retcode]

\* send_app_deploy_reply
AppDeployReply(master_id, content, is_finish, cmd) ==
    [to |-> master_id, cmd |-> cmd, result |-> content, data |-> <<>>,
     is_finish |-> is_finish]

\* A run_python_app handler that is not suspended in install_dependencies
PyIdle == [pc |-> "idle", used |-> "list", usedAPIs |-> <<>>, rc |-> 0]

\* No deploy_request handler of the session is under way
DepIdle == [k |-> 0, cmd |-> "-", hasCode |-> FALSE]

\* app/ holds no project (app: the session whose project it holds; req:
\* app/requirements.txt is there), no handler is suspended
WorkIdle == [app |-> "-", req |-> FALSE,
             py |-> [s \in Sessions |-> PyIdle],
             dep |-> [s \in Sessions |-> DepIdle]]

\* What data["data"]["code"] can be: absent, raw code, a project tree as
\* JSON without and with a requirements.txt
Payloads == {"none", "raw", "tree", "tree+req"}

\* What data["usedAPIs"] can be: a list, absent, something that is no list
UsedKinds == {"list", "absent", "other"}

\* An install that is never taken to have failed
install_success_always(return_code) == TRUE

\* install_dependencies: return_code != 0 is the failure
install_success(return_code) == return_code = 0

\* `isinstance(usedAPIs, list) and len(usedAPIs) > 0`: appendMockSignal
\* with its errors swallowed, else nothing
OfferUsed(used, usedAPIs, file, up) ==
    IF used = "list" /\ Len(usedAPIs) > 0
    THEN appendMockSignal(usedAPIs, file, up)
    ELSE [file |-> file, fx |-> <<>>, raised |-> FALSE]

\* run_python_app from `usedAPIs = data["usedAPIs"]` on: the KeyError of an
\* envelope without usedAPIs, else the offer to the mock file, the spawn
\* through subpiper and the append.  code is the session whose code the
\* file named in cmd_to_run holds when the process is spawned; data of the
\* step's label is <<payload, kind of usedAPIs, code>>.
PyLaunch(s, payload, used, usedAPIs, code) ==
    IF used = "absent"
    THEN /\ replies' = <<>>
         /\ lastCmd' = [Step("run_python_app", s, "raise") EXCEPT
                            !.arg = "given", !.data = <<payload, used, "-">>]
         /\ fx' = <<>>
         /\ UNCHANGED <<lsOfRunner, nextProc, mockFile, providerUp>>
    ELSE LET off == OfferUsed(used, usedAPIs, mockFile, brokerUp)
         IN  /\ mockFile' = off.file
             /\ fx' = off.fx
             /\ providerUp' = IF off.fx # <<>> THEN TRUE ELSE providerUp
             /\ lsOfRunner' = Append(lsOfRunner,
                                     [appName |-> "App name", runner |-> nextProc,
                                      request_from |-> s, from |-> now])
             /\ nextProc' = nextProc + 1
             /\ replies' = <<>>
             /\ lastCmd' = [Step("run_python_app", s, "0") EXCEPT
                                !.arg = "given", !.data = <<payload, used, code>>]

\* What the stretches of run_python_app leave alone
PyFrame ==
    /\ PollRecord({})
    /\ GenTouch
    /\ UNCHANGED <<vehicle, vss, probe, report, storeCall, svc>>
    /\ UNCHANGED <<now, brokerUp, lsOfApiSubscriber, killed, stopRun, binRun,
                   killRaised, pollVars>>

\* run_python_app up to its first await or its return: the reply for a
\* payload without "code"; raw code written to main.py; a project tree
\* written to app/ in place of what was there, and with a requirements.txt
\* the first reply of install_dependencies, where the handler suspends.
RunPythonApp(s, payload, used, usedAPIs) ==
    /\ nextProc <= MaxSpawn
    /\ Len(lsOfRunner) < MaxRunners
    /\ work.py[s].pc = "idle"
    /\ IF MissingField(payload # "none")
       THEN /\ replies' = <<Reply(s, "run_python_app", "Error: Missing code")>>
            /\ lastCmd' = [Step("run_python_app", s, "1") EXCEPT
                               !.arg = "missing", !.data = <<payload, "-", "-">>]
            /\ fx' = <<>>
            /\ UNCHANGED <<lsOfRunner, nextProc, mockFile, providerUp, work>>
       ELSE IF payload = "raw"
       THEN /\ PyLaunch(s, payload, used, usedAPIs, s)
            /\ UNCHANGED work
       ELSE IF payload = "tree"
       THEN /\ work' = [work EXCEPT !.app = s, !.req = FALSE]
            /\ PyLaunch(s, payload, used, usedAPIs, s)
       ELSE /\ work' = [work EXCEPT !.app = s, !.req = TRUE,
                                    !.py[s] = [pc |-> "pip", used |-> used,
                                               usedAPIs |-> usedAPIs, rc |-> 0]]
            /\ replies' = <<AppRunReply(s, FALSE, 0,
                               "Installing dependencies from requirements.txt...")>>
            /\ lastCmd' = [Step("run_python_app", s, "await") EXCEPT
                               !.arg = "given", !.data = <<payload, used, "-">>]
            /\ fx' = <<>>
            /\ UNCHANGED <<lsOfRunner, nextProc, mockFile, providerUp>>
    /\ PyFrame

\* install_dependencies once pip has exited: the reply on the outcome,
\* where the handler suspends again
InstallDependencies(s, return_code) ==
    /\ work.py[s].pc = "pip"
    /\ work' = [work EXCEPT !.py[s].pc = "told", !.py[s].rc = return_code]
    /\ replies' = IF install_success(return_code)
                  THEN <<AppRunReply(s, FALSE, 0,
                                     "Dependencies installed successfully.")>>
                  ELSE <<AppRunReply(s, FALSE, return_code,
                                     "Failed to install dependencies.")>>
    /\ lastCmd' = [Step("run_python_app", s, "await") EXCEPT
                       !.arg = "install", !.data = <<"tree+req", work.py[s].used, "-">>]
    /\ fx' = <<>>
    /\ UNCHANGED <<lsOfRunner, nextProc, mockFile, providerUp>>
    /\ PyFrame

\* run_python_app after install_dependencies: return 1 on a failed install,
\* else the rest of the handler, which spawns `python -u app/main.py`
RunPythonResume(s) ==
    /\ work.py[s].pc = "told"
    /\ nextProc <= MaxSpawn
    /\ Len(lsOfRunner) < MaxRunners
    /\ work' = [work EXCEPT !.py[s] = PyIdle]
    /\ IF ~install_success(work.py[s].rc)
       THEN /\ replies' = <<>>
            /\ lastCmd' = [Step("run_python_app", s, "1") EXCEPT
                               !.arg = "install",
                               !.data = <<"tree+req", work.py[s].used, "-">>]
            /\ fx' = <<>>
            /\ UNCHANGED <<lsOfRunner, nextProc, mockFile, providerUp>>
       ELSE PyLaunch(s, "tree+req", work.py[s].used, work.py[s].usedAPIs, work.app)
    /\ PyFrame

\* The contents of the replies of deploy_request, in the order of the code
DeployReplies == << "Receive deploy request", "Check syntax....",
                    "Build docker image", "Send to HW kit",
                    "Run docker on HW kit", "Deploy done!" >>

DeployCmds == {"deploy_request", "deploy-request"}

\* What the stretches of deploy_request leave alone
DeployFrame ==
    /\ fx' = <<>>
    /\ PollRecord({})
    /\ UNCHANGED <<modelVars, probe, report, storeCall, svc, now, brokerUp,
                   lsOfApiSubscriber, runnerVars, mockVars, pollVars>>

\* deploy_request up to its first asyncio.sleep: the first reply
DeployRequest(s, cmd, hasCode) ==
    /\ work.dep[s].k = 0
    /\ work' = [work EXCEPT !.dep[s] = [k |-> 1, cmd |-> cmd, hasCode |-> hasCode]]
    /\ replies' = <<AppDeployReply(s, DeployReplies[1], FALSE, cmd)>>
    /\ lastCmd' = [Step(cmd, s, "await") EXCEPT !.arg = "sent"]
    /\ DeployFrame

\* deploy_request from the end of one sleep to the next sleep or to the
\* return: after the first sleep writeCodeToFile(data["code"]), a KeyError
\* when the envelope has no "code"; then the next reply, the last one with
\* is_finish True
DeployResume(s) ==
    LET d == work.dep[s]
    IN  /\ d.k > 0
        /\ IF d.k = 1 /\ ~d.hasCode
           THEN /\ work' = [work EXCEPT !.dep[s] = DepIdle]
                /\ replies' = <<>>
                /\ lastCmd' = [Step(d.cmd, s, "raise") EXCEPT !.arg = "code"]
           ELSE IF d.k + 1 < Len(DeployReplies)
           THEN /\ work' = [work EXCEPT !.dep[s].k = d.k + 1]
                /\ replies' = <<AppDeployReply(s, DeployReplies[d.k + 1], FALSE, d.cmd)>>
                /\ lastCmd' = [Step(d.cmd, s, "await") EXCEPT !.arg = "sent"]
           ELSE /\ work' = [work EXCEPT !.dep[s] = DepIdle]
                /\ replies' = <<AppDeployReply(s, DeployReplies[d.k + 1], TRUE, d.cmd)>>
                /\ lastCmd' = [Step(d.cmd, s, "0") EXCEPT !.arg = "sent"]
        /\ DeployFrame

BinIdle == [active |-> FALSE, from |-> "-"]

\* run_bin_app up to its await asyncio.sleep(0.5): the reply for an
\* envelope without "data", the reply for a file that is not there, else
\* the offer of usedAPIs to the mock file (errors swallowed, the KeyError
\* of an envelope without usedAPIs among them).
RunBinApp(s, hasData, isFile, used, usedAPIs) ==
    /\ ~binRun.active
    /\ IF MissingField(hasData)
       THEN /\ replies' = <<Reply(s, "run_bin_app", "Error: Missing app name")>>
            /\ lastCmd' = [Step("run_bin_app", s, "1") EXCEPT
                               !.arg = IF hasData THEN "given" ELSE "missing"]
            /\ fx' = <<>>
            /\ UNCHANGED <<binRun, mockFile, providerUp>>
       ELSE IF ~isFile
       THEN /\ replies' = <<Reply(s, "run_bin_app", "Failed: Rust app not found")>>
            /\ lastCmd' = [Step("run_bin_app", s, "0") EXCEPT
                               !.arg = IF hasData THEN "given" ELSE "missing"]
            /\ fx' = <<>>
            /\ UNCHANGED <<binRun, mockFile, providerUp>>
       ELSE LET off == OfferUsed(used, usedAPIs, mockFile, brokerUp)
            IN  /\ mockFile' = off.file
                /\ fx' = off.fx
                /\ providerUp' = IF off.fx # <<>> THEN TRUE ELSE providerUp
                /\ binRun' = [active |-> TRUE, from |-> s]
                /\ replies' = <<>>
                /\ lastCmd' = [Step("run_bin_app", s, "await") EXCEPT
                                   !.arg = IF hasData THEN "given" ELSE "missing",
                                   !.data = <<"bin", used, "-">>]
    /\ PollRecord({})
    /\ GenRecord
    /\ UNCHANGED <<now, brokerUp, lsOfApiSubscriber, lsOfRunner, nextProc, killed,
                   stopRun, killRaised, pollVars>>

\* run_bin_app after its sleep: spawn through subpiper, append the runner
RunBinResume ==
    /\ binRun.active
    /\ nextProc <= MaxSpawn
    /\ Len(lsOfRunner) < MaxRunners
    /\ lsOfRunner' = Append(lsOfRunner,
                            [appName |-> "app", runner |-> nextProc,
                             request_from |-> binRun.from, from |-> now])
    /\ nextProc' = nextProc + 1
    /\ binRun' = BinIdle
    /\ replies' = <<>>
    /\ lastCmd' = [Step("run_bin_app", binRun.from, "0") EXCEPT !.arg = "given"]
    /\ fx' = <<>>
    /\ PollRecord({})
    /\ UNCHANGED <<modelVars, sideVars, now, brokerUp, lsOfApiSubscriber, killed, stopRun,
                   killRaised, mockVars, pollVars>>

\* The for loop of stop_python_app from list index i (counted as Python's
\* list iterator counts: items consumed so far) up to its end or to the
\* await in the except branch, reached when kill() raises on handle bad.
\* remove() inside the loop shifts the tail left under the iterator.
RECURSIVE StopLoop(_, _, _, _, _, _)
StopLoop(list, i, s, bad, k, removed) ==
    IF i >= Len(list)
    THEN [list |-> list, idx |-> i, killed |-> k, removed |-> removed,
          suspended |-> FALSE]
    ELSE LET runner == list[i + 1]
         IN  IF runner.request_from = s
             THEN IF runner.runner = bad
                  THEN [list |-> list, idx |-> i + 1, killed |-> k,
                        removed |-> removed, suspended |-> TRUE]
                  ELSE StopLoop(RemoveAt(list, i + 1), i + 1, s, bad,
                                k \cup {runner.runner}, removed \cup {runner})
             ELSE StopLoop(list, i + 1, s, bad, k, removed)

StopStretch(s, i0, removed0, failed0, bad) ==
    LET r == StopLoop(lsOfRunner, i0, s, bad, killed, removed0)
    IN  /\ lsOfRunner' = r.list
        /\ killed' = r.killed
        /\ stopRun' = [active |-> r.suspended, from |-> s, idx |-> r.idx,
                       removed |-> r.removed,
                       failed |-> failed0 \/ r.suspended]
        /\ replies' = IF r.suspended
                      THEN <<Reply(s, "stop_python_app", "kill error")>>
                      ELSE <<>>
        /\ lastCmd' = Step("stop_python_app", s,
                           IF r.suspended THEN "await" ELSE "0")
        /\ fx' = <<>>
        /\ PollRecord({})
        /\ killRaised' = (IF r.suspended THEN killRaised \cup {bad} ELSE killRaised)
                              \cap Handles(r.list)
        /\ UNCHANGED <<modelVars, sideVars, now, brokerUp, lsOfApiSubscriber, nextProc, binRun,
                       mockVars, pollVars>>

StopPythonApp(s, bad) ==
    /\ ~stopRun.active
    /\ StopStretch(s, 0, {}, FALSE, bad)

StopResume(bad) ==
    /\ stopRun.active
    /\ StopStretch(stopRun.from, stopRun.idx, stopRun.removed, stopRun.failed, bad)

----------------------------------------------------------------------------
(* ticker: the one-second housekeeping loop *)

\* Expiry at the time to live instead of after it
ExpiredAtTtl(from, ttl) == now - from >= ttl

Expired(from, ttl) == now - from > ttl

SweepSubscribers(d) ==
    SelectSeq(d, LAMBDA e : ~Expired(e.from, TIME_TO_KEEP_SUBSCRIBER_ALIVE))

\* A sweep that drops an expired entry without kill()
RECURSIVE SweepRunnersDrop(_, _, _, _, _)
SweepRunnersDrop(list, i, bad, k, raised) ==
    IF i >= Len(list)
    THEN [list |-> list, killed |-> k, raised |-> raised]
    ELSE LET runner == list[i + 1]
         IN  IF ~Expired(runner.from, TIME_TO_KEEP_RUNNER_ALIVE)
             THEN SweepRunnersDrop(list, i + 1, bad, k, raised)
             ELSE SweepRunnersDrop(RemoveAt(list, i + 1), i + 1, bad, k, raised)

\* The runner loop of ticker: kill and remove inside the iteration; a
\* failing kill() (handles in bad) is printed and the entry stays.
RECURSIVE SweepRunners(_, _, _, _, _)
SweepRunners(list, i, bad, k, raised) ==
    IF i >= Len(list)
    THEN [list |-> list, killed |-> k, raised |-> raised]
    ELSE LET runner == list[i + 1]
         IN  IF ~Expired(runner.from, TIME_TO_KEEP_RUNNER_ALIVE)
             THEN SweepRunners(list, i + 1, bad, k, raised)
             ELSE IF runner.runner \in bad
             THEN SweepRunners(list, i + 1, bad, k, raised \cup {runner.runner})
             ELSE SweepRunners(RemoveAt(list, i + 1), i + 1, bad,
                               k \cup {runner.runner}, raised)

\* A sweep that reports a failed kill() the way stop_python_app does
TickerEmitsOnFailure(raised) ==
    IF raised # {} THEN <<Reply("kit", "ticker", "Error")>> ELSE <<>>

\* What a sweep puts on the channel: ticker has no sio.emit, its except
\* clause prints
TickerEmits(raised) == <<>>

Ticker(bad) ==
    LET r == SweepRunners(lsOfRunner, 0, bad, killed, killRaised)
        gone == { i \in 1..Len(lsOfApiSubscriber) :
                     Expired(lsOfApiSubscriber[i].from,
                             TIME_TO_KEEP_SUBSCRIBER_ALIVE) }
    IN  /\ lsOfApiSubscriber' = SweepSubscribers(lsOfApiSubscriber)
        /\ poll' = CursorAfterDel(poll, gone)
        /\ PollRecord({ lsOfApiSubscriber[i].sid : i \in gone })
        /\ lsOfRunner' = r.list
        /\ killed' = r.killed
        /\ killRaised' = r.raised \cap Handles(r.list)
        /\ lastCmd' = [Step("ticker", "-", "0") EXCEPT
                           !.arg = IF gone # {} THEN "swept" ELSE "kept"]
        /\ fx' = <<>>
        /\ replies' = TickerEmits(r.raised)
        /\ report' = CursorAfterDel(report, gone)
        /\ UNCHANGED <<modelVars, work, svc, probe, storeCall, now, brokerUp, nextProc, stopRun,
                       binRun, mockVars, connected, curVal>>

----------------------------------------------------------------------------
(* ticker_fast: the 0.3 s loop that reports the subscribed values *)

\* ticker_fast that tries the connection before it looks at the registry
PollBranchConnectFirst(n, conn) ==
    IF ~conn THEN "connect"
    ELSE IF n <= 0 THEN "skip"
    ELSE "iterate"

\* The branch a round takes after its sleep
PollBranch(n, conn) ==
    IF n <= 0 THEN "skip"
    ELSE IF ~conn THEN "connect"
    ELSE "iterate"

\* The entries from the iterator's place on: the index of the first one
\* with a non-empty apis list (the others have no body to run), 0 if none.
RECURSIVE NextWithApis(_, _)
NextWithApis(d, pos) ==
    IF pos >= Len(d) THEN 0
    ELSE IF Len(d[pos + 1].apis) > 0 THEN pos + 1
    ELSE NextWithApis(d, pos + 1)

\* Enter the body for the next entry, or leave the loop
PollEnter(used, pos) ==
    LET i == NextWithApis(lsOfApiSubscriber, pos)
    IN  IF i = 0
        THEN /\ poll' = PollIdle
             /\ lastCmd' = [Step("ticker_fast", "-", "0") EXCEPT !.arg = "done"]
        ELSE /\ poll' = [pc |-> "read", used |-> used, pos |-> i,
                         sid |-> lsOfApiSubscriber[i].sid,
                         apis |-> lsOfApiSubscriber[i].apis,
                         k |-> 1, vals |-> <<>>]
             /\ lastCmd' = [Step("ticker_fast", lsOfApiSubscriber[i].sid, "await")
                                EXCEPT !.arg = "iterate"]

PollFrame ==
    /\ fx' = <<>>
    /\ replies' = <<>>
    /\ UNCHANGED <<modelVars, sideVars, now, brokerUp, lsOfApiSubscriber, runnerVars, mockVars, curVal>>

\* A round starts: the two guards, then the first next() of the for loop
PollTick ==
    /\ poll.pc = "sleep"
    /\ pollOut' = <<>>
    /\ pollReads' = 0
    /\ pollSeen' = IF brokerUp THEN {} ELSE {"down"}
    /\ pollMet' = 0
    /\ LET branch == PollBranch(Len(lsOfApiSubscriber), connected)
       IN  CASE branch = "skip" ->
                  /\ poll' = PollIdle
                  /\ lastCmd' = [Step("ticker_fast", "-", "0") EXCEPT !.arg = "skip"]
             [] branch = "connect" ->
                  /\ poll' = [PollIdle EXCEPT !.pc = "connect"]
                  /\ lastCmd' = [Step("ticker_fast", "-", "await") EXCEPT
                                     !.arg = "connect"]
             [] OTHER ->
                  PollEnter(Len(lsOfApiSubscriber), 0)
    /\ UNCHANGED connected
    /\ PollFrame

\* await client.connect() returns or raises; it is outside the try block,
\* so a refused connection ends the ticker_fast task.
PollConnect ==
    /\ poll.pc = "connect"
    /\ IF brokerUp
       THEN /\ connected' = TRUE
            /\ poll' = PollIdle
            /\ lastCmd' = [Step("ticker_fast", "-", "0") EXCEPT !.arg = "connected"]
       ELSE /\ UNCHANGED connected
            /\ poll' = [PollIdle EXCEPT !.pc = "dead"]
            /\ lastCmd' = [Step("ticker_fast", "-", "raise") EXCEPT !.arg = "connect"]
    /\ UNCHANGED <<pollOut, pollReads, pollSeen, pollMet>>
    /\ PollFrame

\* What the read of one api adds to current_values_dict: nothing when
\* get_current_values raises (databroker down, unknown path)
ReadInto(vals, api) ==
    IF brokerUp /\ api \in Catalog
    THEN Append(SelectSeq(vals, LAMBDA e : e.signal # api),
                Entry(api, curVal[api]))
    ELSE vals

\* One await client.get_current_values([api]) completes; after the last
\* api of the subscriber the result is emitted.
PollRead ==
    /\ poll.pc = "read"
    /\ LET vals == ReadInto(poll.vals, poll.apis[poll.k])
       IN  IF poll.k < Len(poll.apis)
           THEN /\ poll' = [poll EXCEPT !.k = @ + 1, !.vals = vals]
                /\ UNCHANGED pollOut
                /\ lastCmd' = [Step("ticker_fast", poll.sid, "await") EXCEPT
                                   !.arg = "read"]
           ELSE /\ poll' = [poll EXCEPT !.pc = "emit", !.vals = vals]
                /\ pollOut' = Append(pollOut, [to |-> poll.sid, result |-> vals])
                /\ lastCmd' = [Step("ticker_fast", poll.sid, "await") EXCEPT
                                   !.arg = "emit"]
    /\ pollReads' = pollReads + 1
    /\ UNCHANGED <<connected, pollSeen, pollMet>>
    /\ PollFrame

\* The emit returns and the for loop asks its iterator for the next key: a
\* dict whose size changed since the loop began raises RuntimeError, which
\* the except clause prints, and the round is over.
PollNext ==
    /\ poll.pc = "emit"
    /\ IF Len(lsOfApiSubscriber) # poll.used
       THEN /\ poll' = PollIdle
            /\ lastCmd' = [Step("ticker_fast", "-", "0") EXCEPT !.arg = "aborted"]
       ELSE PollEnter(poll.used, poll.pos)
    /\ UNCHANGED <<connected, pollOut, pollReads, pollSeen, pollMet>>
    /\ PollFrame

\* The databroker's value of a path changes (mock provider, write_signals_value)
SetCurrentValue(path, value) ==
    /\ curVal[path] # value
    /\ curVal' = [curVal EXCEPT ![path] = value]
    /\ PollRecord({path})
    /\ lastCmd' = Step("value", "-", "0")
    /\ fx' = <<>>
    /\ replies' = <<>>
    /\ UNCHANGED <<modelVars, sideVars, now, brokerUp, lsOfApiSubscriber, runnerVars, mockVars,
                   connected, poll>>

\* The client library drops its connection flag; ticker_fast reads the flag
\* at the start of a round only.
Disconnect ==
    /\ poll.pc = "sleep"
    /\ connected
    /\ connected' = FALSE
    /\ lastCmd' = Step("disconnect", "-", "0")
    /\ fx' = <<>>
    /\ replies' = <<>>
    /\ PollRecord({})
    /\ UNCHANGED <<modelVars, sideVars, now, brokerUp, lsOfApiSubscriber, runnerVars, mockVars,
                   curVal, poll>>

----------------------------------------------------------------------------
(* appendMockSignal and modifyMockSignal statement by statement.  Both are
   plain functions called from the coroutine messageToKit: between their
   first and their last statement there is no await, so the event loop
   runs no other handler and no ticker. *)

StoreIdle == [pc |-> "idle", read |-> [blank |-> FALSE, mocks |-> <<>>],
              signals |-> <<>>, entries |-> <<>>]

\* An event loop that would switch tasks inside a plain function
LoopFreeAnywhere == TRUE

\* The event loop picks a task only when the running one awaits or ends:
\* no call of a store function is under way
LoopFree == \A t \in Sessions : storeCall[t].pc = "idle"

StoreFrame ==
    /\ fx' = <<>>
    /\ replies' = <<>>
    /\ PollRecord({})
    /\ UNCHANGED <<modelVars, work, svc, probe, report, now, brokerUp, lsOfApiSubscriber,
                   runnerVars, providerUp, pollVars>>

\* appendMockSignal up to cur_mocks = json.loads(content): the early return
\* on an empty list, the KClient context, the open and the read
AppendRead(t, signals) ==
    /\ LoopFree
    /\ storeCall[t].pc = "idle"
    /\ IF Len(signals) <= 0
       THEN /\ UNCHANGED storeCall
            /\ lastCmd' = [Step("appendMockSignal", t, "0") EXCEPT
                               !.arg = "empty", !.apis = signals]
       ELSE IF ~brokerUp
       THEN /\ UNCHANGED storeCall
            /\ lastCmd' = [Step("appendMockSignal", t, "raise") EXCEPT
                               !.arg = "refused", !.apis = signals]
       ELSE /\ storeCall' = [storeCall EXCEPT ![t] =
                                [StoreIdle EXCEPT !.pc = "read", !.read = mockFile,
                                                  !.signals = signals]]
            /\ lastCmd' = [Step("appendMockSignal", t, "run") EXCEPT
                               !.arg = "read", !.apis = signals]
    /\ UNCHANGED mockFile
    /\ StoreFrame

\* The rest of appendMockSignal: the loop over the signals and, if one is
\* new, seek(0), json.dump and truncate of what was read plus the new ones
AppendWrite(t) ==
    /\ storeCall[t].pc = "read"
    /\ LET off == appendMockSignal(storeCall[t].signals, storeCall[t].read, TRUE)
       IN  mockFile' = IF brokerUp /\ off.fx # <<>> THEN off.file ELSE mockFile
    /\ storeCall' = [storeCall EXCEPT ![t] = StoreIdle]
    /\ lastCmd' = [Step("appendMockSignal", t, "0") EXCEPT
                       !.arg = "written", !.apis = storeCall[t].signals]
    /\ StoreFrame

\* modifyMockSignal up to the KClient context: open(mock_signal_path, 'w')
\* has truncated the file
ModifyOpen(t, entries) ==
    /\ LoopFree
    /\ storeCall[t].pc = "idle"
    /\ mockFile' = [blank |-> TRUE, mocks |-> <<>>]
    /\ IF ~brokerUp
       THEN /\ UNCHANGED storeCall
            /\ lastCmd' = [Step("modifyMockSignal", t, "raise") EXCEPT
                               !.arg = "refused", !.data = entries]
       ELSE /\ storeCall' = [storeCall EXCEPT ![t] =
                                [StoreIdle EXCEPT !.pc = "opened",
                                                  !.entries = entries]]
            /\ lastCmd' = [Step("modifyMockSignal", t, "run") EXCEPT
                               !.arg = "opened", !.data = entries]
    /\ StoreFrame

\* The rest of modifyMockSignal: the entries with metadata (none when the
\* databroker went away meanwhile), seek(0), json.dump, truncate
ModifyWrite(t) ==
    /\ storeCall[t].pc = "opened"
    /\ mockFile' = modifyMockSignal(IF brokerUp THEN storeCall[t].entries ELSE <<>>,
                                    TRUE).file
    /\ storeCall' = [storeCall EXCEPT ![t] = StoreIdle]
    /\ lastCmd' = [Step("modifyMockSignal", t, "0") EXCEPT
                       !.arg = "written", !.data = storeCall[t].entries]
    /\ StoreFrame

\* Any other handler or ticker gets the loop only between two calls
ListBetween(t) == LoopFree /\ ListMockSignal(t)

----------------------------------------------------------------------------
(* mockservice.py: the idle detection of MockService.  clock is what
   time.perf_counter() returns.  main_loop runs in the main thread, the
   two _mock_update_request_handler in threads of the executor. *)

\* MockService.__init__ (with the service registered, main_loop at the
\* top of its while loop)
MockService__init__ ==
    [is_idle |-> FALSE, last_activity_time |-> 0, clock |-> 0, pending |-> 0,
     anim |-> FALSE, exited |-> FALSE, pc |-> "top",
     l_idle |-> FALSE, has_events |-> FALSE, has_animations |-> FALSE,
     executed |-> FALSE, slept |-> "-"]

\* An activity that leaves the idle flag as it is
update_activity_timestamp_only(s) ==
    [s EXCEPT !.last_activity_time = s.clock, !.exited = FALSE]

\* _update_activity_timestamp
update_activity_timestamp(s) ==
    [s EXCEPT !.last_activity_time = s.clock, !.is_idle = FALSE,
              !.exited = s.is_idle]

\* An idle check that switches at the threshold
check_idle_state_at_threshold(s) ==
    LET time_since_activity == s.clock - s.last_activity_time
    IN  IF ~s.is_idle /\ time_since_activity >= MOCK_IDLE_THRESHOLD
        THEN [s EXCEPT !.is_idle = TRUE]
        ELSE s

\* _check_idle_state: the service after the call; the value returned is
\* its is_idle
check_idle_state(s) ==
    LET time_since_activity == s.clock - s.last_activity_time
    IN  IF ~s.is_idle /\ time_since_activity > MOCK_IDLE_THRESHOLD
        THEN [s EXCEPT !.is_idle = TRUE]
        ELSE s

\* A main loop that runs the behaviours only when the service is not idle
ShouldExecuteWhenActive(is_idle, has_events, has_animations) == ~is_idle

\* if not is_idle or has_events or has_animations
ShouldExecute(is_idle, has_events, has_animations) ==
    ~is_idle \/ has_events \/ has_animations

\* The sleep at the end of an iteration
SleepDuration(is_idle, has_events, has_animations) ==
    IF is_idle /\ ~has_events /\ ~has_animations THEN "idle" ELSE "base"

SvcFrame ==
    /\ fx' = <<>>
    /\ replies' = <<>>
    /\ PollRecord({})
    /\ UNCHANGED <<modelVars, work, probe, report, storeCall, now, brokerUp,
                   lsOfApiSubscriber, runnerVars, mockVars, pollVars>>

\* main_loop: self.check_for_new_mocks(); a changed configuration is
\* loaded again, which counts as activity
CheckForNewMocks(changed) ==
    /\ svc.pc = "top"
    /\ svc' = [(IF changed THEN update_activity_timestamp(svc) ELSE svc)
                  EXCEPT !.pc = "check"]
    /\ lastCmd' = [Step("check_for_new_mocks", "-", "0") EXCEPT
                       !.arg = IF changed THEN "reloaded" ELSE "same"]
    /\ SvcFrame

\* main_loop: is_idle = self._check_idle_state(), has_events,
\* has_animations
CheckIdleState ==
    /\ svc.pc = "check"
    /\ LET s == check_idle_state(svc)
       IN  svc' = [s EXCEPT !.pc = "run", !.l_idle = s.is_idle,
                            !.has_events = s.pending > 0,
                            !.has_animations = s.anim]
    /\ lastCmd' = Step("_check_idle_state", "-", "0")
    /\ SvcFrame

\* main_loop from the test of is_idle to the sleep: the executor may use
\* up pending events and start or finish animations
MainLoopRun(consumed, animAfter) ==
    /\ svc.pc = "run"
    /\ consumed <= svc.pending
    /\ LET run == ShouldExecute(svc.l_idle, svc.has_events, svc.has_animations)
           s1  == IF run /\ (svc.has_events \/ svc.has_animations)
                  THEN update_activity_timestamp(svc)
                  ELSE svc
           s2  == IF run
                  THEN [s1 EXCEPT !.pending = @ - consumed, !.anim = animAfter]
                  ELSE s1
       IN  /\ ~run => (consumed = 0 /\ animAfter = svc.anim)
           /\ svc' = [s2 EXCEPT !.pc = "top", !.executed = run,
                                !.slept = SleepDuration(svc.l_idle, svc.has_events,
                                                        svc.has_animations)]
    /\ lastCmd' = Step("main_loop", "-", "0")
    /\ SvcFrame

\* _on_datapoint_updated: the activity, then _set_datapoint, which takes
\* the value event of the path from the pending list, or raises when the
\* databroker refuses the value
OnDatapointUpdated(ok, had) ==
    /\ had => svc.pending > 0
    /\ LET s == update_activity_timestamp(svc)
       IN  svc' = IF ok /\ had THEN [s EXCEPT !.pending = @ - 1] ELSE s
    /\ lastCmd' = Step("_on_datapoint_updated", "-", IF ok THEN "0" ELSE "raise")
    /\ SvcFrame

\* _mock_update_request_handler for one update of one path: a datapoint
\* with a value is queued as an event and counts as activity
MockUpdateRequestHandler(hasValue) ==
    /\ svc.pending < MaxPending
    /\ svc' = IF hasValue
              THEN [update_activity_timestamp(svc) EXCEPT !.pending = @ + 1]
              ELSE svc
    /\ lastCmd' = [Step("_mock_update_request_handler", "-", "0") EXCEPT
                       !.arg = IF hasValue THEN "value" ELSE "null"]
    /\ SvcFrame

\* time.perf_counter() moves on
PerfCounter(d) ==
    /\ svc.clock + d <= MaxSvcTime
    /\ svc' = [svc EXCEPT !.clock = @ + d]
    /\ lastCmd' = Step("perf_counter", "-", "0")
    /\ SvcFrame

----------------------------------------------------------------------------
(* ticker_5s: the loop that reports the runtime state when it changed *)

\* json.dumps of a list: a string that is never the empty string, which
\* is what lastLstRunString starts with (here <<>>)
json_dumps(list) == <<list>>

\* sent is the subscriber map that the detailed events of the last
\* emitting tick carried
ReportIdle(lastLstRunString, lastNoApiSubscriber) ==
    [pc |-> "sleep", used |-> 0, pos |-> 0,
     lastLstRunString |-> lastLstRunString,
     lastNoApiSubscriber |-> lastNoApiSubscriber,
     sent |-> <<>>]

\* A reporter that takes every tick for a change
ReportChangedAlways(r, lstRunString, noSubscriber) == TRUE

\* lastLstRunString != lstRunString or lastNoApiSubscriber != noSubscriber
ReportChanged(r, lstRunString, noSubscriber) ==
    r.lastLstRunString # lstRunString \/ r.lastNoApiSubscriber # noSubscriber

\* lsOfApiSubscriber made JSON-safe: apis and keep_alive of every entry
SafeApiSubscriber(d) ==
    [i \in 1..Len(d) |-> [sid |-> d[i].sid, apis |-> d[i].apis, keep_alive |-> 0]]

ReportFrame ==
    /\ fx' = <<>>
    /\ PollRecord({})
    /\ UNCHANGED <<modelVars, work, svc, probe, storeCall, now, brokerUp, lsOfApiSubscriber,
                   runnerVars, mockVars, pollVars>>

\* A tick after its sleep: the skip without subscribers, the comparison
\* with what was reported last, and the report-runtime-state event
ReportTick ==
    /\ report.pc = "sleep"
    /\ LET noSubscriber == Len(lsOfApiSubscriber)
           lstRunString == json_dumps(convertLsOfRunnerToJson(lsOfRunner))
       IN  IF noSubscriber <= 0
           THEN /\ UNCHANGED report
                /\ replies' = <<>>
                /\ lastCmd' = [Step("ticker_5s", "-", "0") EXCEPT !.arg = "skip"]
           ELSE IF ReportChanged(report, lstRunString, noSubscriber)
           THEN /\ report' = [ReportIdle(lstRunString, noSubscriber) EXCEPT
                                  !.pc = "state",
                                  !.sent = SafeApiSubscriber(lsOfApiSubscriber)]
                /\ replies' = <<ReplyData("kit", "report-runtime-state", "-",
                                          <<Len(lsOfRunner), noSubscriber>>)>>
                /\ lastCmd' = [Step("ticker_5s", "-", "await") EXCEPT !.arg = "state"]
           ELSE /\ UNCHANGED report
                /\ replies' = <<>>
                /\ lastCmd' = [Step("ticker_5s", "-", "0") EXCEPT !.arg = "same"]
    /\ ReportFrame

\* An emit returns and `for client_sid in lsOfApiSubscriber` asks for its
\* next key (the first time, the iterator is made): the next reply, the
\* end of the loop, or the RuntimeError of a dict that changed size,
\* which the except clause prints.
ReportNext ==
    /\ report.pc \in {"state", "emit"}
    /\ LET used == IF report.pc = "state" THEN Len(lsOfApiSubscriber) ELSE report.used
       IN  IF Len(lsOfApiSubscriber) # used
           THEN /\ report' = [report EXCEPT !.pc = "sleep", !.used = 0, !.pos = 0]
                /\ replies' = <<>>
                /\ lastCmd' = [Step("ticker_5s", "-", "0") EXCEPT !.arg = "aborted"]
           ELSE IF report.pos >= Len(lsOfApiSubscriber)
           THEN /\ report' = [report EXCEPT !.pc = "sleep", !.used = 0, !.pos = 0]
                /\ replies' = <<>>
                /\ lastCmd' = [Step("ticker_5s", "-", "0") EXCEPT !.arg = "done"]
           ELSE LET client_sid == lsOfApiSubscriber[report.pos + 1].sid
                IN  /\ report' = [report EXCEPT !.pc = "emit", !.used = used,
                                                !.pos = @ + 1]
                    /\ replies' = <<ReplyData(client_sid, "report-runtime-state", "-",
                                              <<convertLsOfRunnerToJson(lsOfRunner),
                                                SafeApiSubscriber(lsOfApiSubscriber)>>)>>
                    /\ lastCmd' = [Step("ticker_5s", client_sid, "await") EXCEPT
                                       !.arg = "emit"]
    /\ ReportFrame

----------------------------------------------------------------------------
(* wait_for_databroker_ready *)

\* What one probe (KClient connect and get_server_info) can meet: it
\* succeeds, raises VSSClientError with "Connection refused", or raises
\* anything else
Outcomes == {"ok", "refused", "other"}

ProbeSeqs == [1..MaxProbes -> Outcomes]

\* The outcome of the i-th probe; a backend that has given all it was
\* asked to give goes on refusing
ProbeAt(probes, i) == IF i <= Len(probes) THEN probes[i] ELSE "refused"

\* A loop that makes one attempt more than max_attempts
ExhaustedLate(attempt, max_attempts) == attempt > max_attempts

\* `for attempt in range(max_attempts)` is through
Exhausted(attempt, max_attempts) == attempt >= max_attempts

\* An except clause that retries whatever was raised
RetryAny(outcome) == outcome # "ok"

\* `except VSSClientError as e: if "Connection refused" in str(e)`
Retry(outcome) == outcome = "refused"

\* The for loop from the attempt-th iteration on (attempt counts the
\* probes made so far)
RECURSIVE ProbeLoop(_, _, _)
ProbeLoop(probes, attempt, max_attempts) ==
    IF Exhausted(attempt, max_attempts)
    THEN [result |-> "fatal", attempts |-> attempt, sleeps |-> attempt]
    ELSE LET outcome == ProbeAt(probes, attempt + 1)
         IN  IF outcome = "ok"
             THEN [result |-> "ready", attempts |-> attempt + 1, sleeps |-> attempt]
             ELSE IF Retry(outcome)
             THEN ProbeLoop(probes, attempt + 1, max_attempts)
             ELSE [result |-> "error", attempts |-> attempt + 1, sleeps |-> attempt]

\* wait_for_databroker_ready(max_attempts): "ready" is return True,
\* "fatal" the exception after the loop, "error" a re-raised probe error
wait_for_databroker_ready(probes, max_attempts) == ProbeLoop(probes, 0, max_attempts)

ProbeIdle == [given |-> <<>>, max |-> 0, result |-> "-", attempts |-> 0,
              sleeps |-> 0]

WaitForDatabrokerReady ==
    /\ probe.result = "-"
    /\ LET r == wait_for_databroker_ready(probe.given, probe.max)
       IN  probe' = [probe EXCEPT !.result = r.result, !.attempts = r.attempts,
                                  !.sleeps = r.sleeps]
    /\ lastCmd' = Step("wait_for_databroker_ready", "-",
                       IF probe'.result = "ready" THEN "0" ELSE "raise")
    /\ fx' = <<>>
    /\ replies' = <<>>
    /\ PollRecord({})
    /\ UNCHANGED <<modelVars, work, svc, report, storeCall, now, brokerUp, lsOfApiSubscriber,
                   runnerVars, mockVars, pollVars>>

\* What the probes of the handler meet: a backend that is up, one that
\* comes up after two refusals, one that never does, one that fails
HandlerProbes == { <<"ok">>, <<"refused", "refused", "ok">>, <<>>, <<"refused", "other">> }

----------------------------------------------------------------------------
(* generate_vehicle_model: the handler and vehicle_model_manager.py *)

\* data["data"]: a specification the generator accepts, one it rejects, and
\* a document that is no tree of signals
VssInputs == {"valid", "invalid", "malformed"}

GenIdle == [pc |-> "idle", from |-> "-", input |-> "-", touched |-> FALSE,
            pre |-> [store |-> [blank |-> FALSE, mocks |-> <<>>],
                     vehicle |-> "default", vss |-> "default"]]

\* A generation that prints its error and returns as if it had succeeded
generate_vehicle_model_swallowed(input, m) ==
    CASE input = "malformed" ->
             [vehicle |-> m.vehicle, vss |-> m.vss, raised |-> FALSE]
      [] input = "invalid" ->
             [vehicle |-> "none", vss |-> "invalid", raised |-> FALSE]
      [] OTHER ->
             [vehicle |-> "custom", vss |-> "custom", raised |-> FALSE]

\* vehicle_model_manager.generate_vehicle_model: traverse_and_fix raises on
\* a document without items(); else vss.json is written and the vehicle
\* package removed before generate_model runs, which raises on an invalid
\* specification; on success the package is moved in and the databroker
\* restarted.
generate_vehicle_model(input, m) ==
    CASE input = "malformed" ->
             [vehicle |-> m.vehicle, vss |-> m.vss, raised |-> TRUE]
      [] input = "invalid" ->
             [vehicle |-> "none", vss |-> "invalid", raised |-> TRUE]
      [] OTHER ->
             [vehicle |-> "custom", vss |-> "custom", raised |-> FALSE]

\* revert_vehicle_model that leaves the files as generation left them
revert_vehicle_model_kept(m) == [vehicle |-> m.vehicle, vss |-> m.vss]

\* vehicle_model_manager.revert_vehicle_model: std_vehicle is copied over
\* the vehicle package and default_vss.json over vss.json.
revert_vehicle_model(m) == [vehicle |-> "default", vss |-> "default"]

\* The handler up to its first await: the "Start to rebuild" reply
GenerateVehicleModel(s, input) ==
    /\ gen.pc = "idle"
    /\ gen' = [pc |-> "start", from |-> s, input |-> input, touched |-> FALSE,
               pre |-> [store |-> mockFile, vehicle |-> vehicle, vss |-> vss]]
    /\ replies' = <<Reply(s, "revert_vehicle_model",
                          "Start to rebuild vehicle model...")>>
    /\ lastCmd' = [Step("generate_vehicle_model", s, "await") EXCEPT !.arg = "start"]
    /\ fx' = <<>>
    /\ PollRecord({})
    /\ UNCHANGED <<now, brokerUp, lsOfApiSubscriber, runnerVars, mockVars,
                   pollVars, vehicle, vss, sideVars>>

\* From the first await to the next: stopMockService, generation, the
\* readiness check (ready: the restarted databroker answers within the
\* attempts), modifyMockSignal([""]), startMockService and the success
\* reply; or, from wherever an exception was raised, the error reply.
GenerateBody(ready) ==
    /\ gen.pc = "start"
    /\ LET g == generate_vehicle_model(gen.input, [vehicle |-> vehicle, vss |-> vss])
           \* modifyMockSignal([""]): the one entry is no dict, the lookup
           \* of its path raises and is printed, and "[]" is written
           m == modifyMockSignal(<<>>, TRUE)
       IN  /\ vehicle' = g.vehicle
           /\ vss' = g.vss
           /\ IF g.raised
              THEN /\ UNCHANGED <<brokerUp, mockFile>>
                   /\ providerUp' = FALSE
                   /\ fx' = <<"stop">>
                   /\ gen' = [gen EXCEPT !.pc = "failed"]
                   /\ replies' = <<Reply(gen.from, "generate_vehicle_model",
                                         "Error: generate_vehicle_model Failed")>>
                   /\ lastCmd' = [Step("generate_vehicle_model", gen.from, "await")
                                      EXCEPT !.arg = "failed"]
              ELSE IF ~ready
              THEN /\ brokerUp' = FALSE
                   /\ UNCHANGED mockFile
                   /\ providerUp' = FALSE
                   /\ fx' = <<"stop">>
                   /\ gen' = [gen EXCEPT !.pc = "failed"]
                   /\ replies' = <<Reply(gen.from, "generate_vehicle_model",
                                         "Error: generate_vehicle_model Failed")>>
                   /\ lastCmd' = [Step("generate_vehicle_model", gen.from, "await")
                                      EXCEPT !.arg = "failed"]
              ELSE /\ brokerUp' = TRUE
                   /\ mockFile' = m.file
                   /\ providerUp' = TRUE
                   /\ fx' = <<"stop", "write", "start">>
                   /\ gen' = [gen EXCEPT !.pc = "idle"]
                   /\ replies' = <<Reply(gen.from, "generate_vehicle_model",
                                         "Generate new model Successful")>>
                   /\ lastCmd' = [Step("generate_vehicle_model", gen.from, "0")
                                      EXCEPT !.arg = "done"]
    /\ PollRecord({"down"})
    /\ UNCHANGED <<now, lsOfApiSubscriber, runnerVars, pollVars, sideVars>>

\* After the error reply: revert_vehicle_model(), which restarts the
\* databroker, and return 0; the mock provider is not started.
GenerateRevert(up) ==
    /\ gen.pc = "failed"
    /\ LET r == revert_vehicle_model([vehicle |-> vehicle, vss |-> vss])
       IN  /\ vehicle' = r.vehicle
           /\ vss' = r.vss
    /\ brokerUp' = up
    /\ gen' = [gen EXCEPT !.pc = "idle"]
    /\ replies' = <<>>
    /\ fx' = <<>>
    /\ lastCmd' = [Step("generate_vehicle_model", gen.from, "0") EXCEPT
                       !.arg = "reverted"]
    /\ PollRecord({"down"})
    /\ UNCHANGED <<now, lsOfApiSubscriber, runnerVars, mockVars, pollVars, sideVars>>

\* The revert_vehicle_model command up to its first await: the "Start to
\* revert" reply
RevertVehicleModel(s) ==
    /\ gen.pc = "idle"
    /\ gen' = [pc |-> "revert", from |-> s, input |-> "-", touched |-> FALSE,
               pre |-> [store |-> mockFile, vehicle |-> vehicle, vss |-> vss]]
    /\ replies' = <<Reply(s, "revert_vehicle_model",
                          "Start to revert to default vehicle model...")>>
    /\ lastCmd' = [Step("revert_vehicle_model", s, "await") EXCEPT !.arg = "start"]
    /\ fx' = <<>>
    /\ PollRecord({})
    /\ UNCHANGED <<now, brokerUp, lsOfApiSubscriber, runnerVars, mockVars,
                   pollVars, vehicle, vss, sideVars>>

\* The rest of the command: stopMockService, revert_vehicle_model() with
\* its restart of the databroker (up: it answers again by then), the
\* sleep, startMockService and the success reply
RevertBody(up) ==
    /\ gen.pc = "revert"
    /\ LET r == revert_vehicle_model([vehicle |-> vehicle, vss |-> vss])
       IN  /\ vehicle' = r.vehicle
           /\ vss' = r.vss
    /\ brokerUp' = up
    /\ providerUp' = TRUE
    /\ fx' = <<"stop", "start">>
    /\ gen' = [gen EXCEPT !.pc = "idle"]
    /\ replies' = <<Reply(gen.from, "revert_vehicle_model",
                          "Revert to default Vehicle Model Successful")>>
    /\ lastCmd' = [Step("revert_vehicle_model", gen.from, "0") EXCEPT !.arg = "done"]
    /\ PollRecord({"down"})
    /\ UNCHANGED <<now, lsOfApiSubscriber, runnerVars, mockFile, pollVars, sideVars>>

----------------------------------------------------------------------------
(* Environment: time passes, the databroker goes down and comes back *)

Advance(d, limit) ==
    /\ now + d <= limit
    /\ now' = now + d
    /\ lastCmd' = Step("advance", "-", "0")
    /\ fx' = <<>>
    /\ replies' = <<>>
    /\ PollRecord({})
    /\ UNCHANGED <<modelVars, sideVars, brokerUp, lsOfApiSubscriber, runnerVars, mockVars, pollVars>>

BrokerFlip ==
    /\ brokerUp' = ~brokerUp
    /\ lastCmd' = Step("broker", "-", "0")
    /\ fx' = <<>>
    /\ replies' = <<>>
    /\ PollRecord({"down"})
    /\ UNCHANGED <<modelVars, sideVars, now, lsOfApiSubscriber, runnerVars, mockVars, pollVars>>

----------------------------------------------------------------------------
(* Initial state and specifications *)

InitBase ==
    /\ now = 0
    /\ brokerUp = TRUE
    /\ lsOfApiSubscriber = <<>>
    /\ lsOfRunner = <<>>
    /\ nextProc = 1
    /\ killed = {}
    /\ mockFile = [blank |-> FALSE, mocks |-> <<>>]
    /\ providerUp = TRUE
    /\ stopRun = [active |-> FALSE, from |-> "-", idx |-> 0, removed |-> {},
                  failed |-> FALSE]
    /\ binRun = BinIdle
    /\ killRaised = {}
    /\ connected = TRUE
    /\ curVal = [path \in Catalog |-> 0]
    /\ poll = PollIdle
    /\ pollOut = <<>>
    /\ pollReads = 0
    /\ pollSeen = {}
    /\ pollMet = 0
    /\ vehicle = "default"
    /\ vss = "default"
    /\ gen = GenIdle
    /\ report = ReportIdle(<<>>, 0)
    /\ storeCall = [t \in Sessions |-> StoreIdle]
    /\ svc = MockService__init__
    /\ work = WorkIdle
    /\ lastCmd = Step("init", "-", "0")
    /\ fx = <<>>
    /\ replies = <<>>

Init == InitBase /\ probe = ProbeIdle

\* A call of wait_for_databroker_ready about to be made
InitProbe ==
    /\ InitBase
    /\ \E given \in ProbeSeqs, max \in 0..MaxProbes :
           probe = [ProbeIdle EXCEPT !.given = given, !.max = max]

SubscribeStep == \E s \in Sessions, present \in BOOLEAN, apis \in ApiLists :
                     SubscribeApis(s, present, apis)
UnsubscribeStep == \E s \in Sessions : UnsubscribeApis(s)
RunStep == \E s \in Sessions, hasCode \in BOOLEAN, usedAPIs \in UsedLists :
               RunPythonApp(s, IF hasCode THEN "raw" ELSE "none", "list", usedAPIs)
StopStep == \E s \in Sessions, bad \in {0} \cup Handles(lsOfRunner) :
                StopPythonApp(s, bad)
ResumeStep == \E bad \in {0} \cup Handles(lsOfRunner) : StopResume(bad)
TickerStep == \E bad \in SUBSET Handles(lsOfRunner) : Ticker(bad)
AdvanceStep == \E d \in TimeSteps : Advance(d, MaxTime)
RunBinStep == \E s \in Sessions, hasData \in BOOLEAN, isFile \in BOOLEAN,
                  usedAPIs \in UsedLists :
                  RunBinApp(s, hasData, isFile, "list", usedAPIs)
RunnerAdvanceStep == \E d \in RunnerTimeSteps : Advance(d, MaxRunnerTime)

SetMockStep == \E s \in Sessions, entries \in EntryLists : SetMockSignals(s, entries)
ListMockStep == \E s \in Sessions : ListMockSignal(s)
OfferStep == \E s \in Sessions, apis \in ApiLists : SubscribeApis(s, TRUE, apis)

OtherStep == \E s \in Sessions, cmd \in OtherCmds : OtherCommand(s, cmd)

\* Mock signal file: the commands that read and write it, and the end of
\* the dispatcher's chain
NextMock == OfferStep \/ SetMockStep \/ ListMockStep \/ OtherStep \/ BrokerFlip
SpecMock == Init /\ [][NextMock]_vars

\* A round in progress meets at most MaxInterleave steps of others
PollOpen == PollRunning => pollMet < MaxInterleave

PollSubscribeStep == PollOpen /\ \E s \in Sessions, apis \in PollLists :
                                     SubscribeApis(s, TRUE, apis)
PollUnsubscribeStep == PollOpen /\ \E s \in Sessions : UnsubscribeApis(s)
ValueStep == PollOpen /\ \E path \in PollPaths, value \in Values :
                             SetCurrentValue(path, value)
PollBrokerStep == PollOpen /\ BrokerFlip

\* ticker_fast with the commands that change what it reads
NextPoll == PollTick \/ PollConnect \/ PollRead \/ PollNext
                \/ PollSubscribeStep \/ PollUnsubscribeStep \/ ValueStep
                \/ PollBrokerStep \/ Disconnect
SpecPoll == Init /\ [][NextPoll]_vars

GenerateStep == \E s \in Sessions, input \in VssInputs : GenerateVehicleModel(s, input)
\* is_process_running_nix("databroker"), then wait_for_databroker_ready()
GenerateBodyStep ==
    \E running \in BOOLEAN, probes \in HandlerProbes :
        GenerateBody(running /\ wait_for_databroker_ready(probes, DEFAULT_ATTEMPTS).result
                                   = "ready")
GenerateRevertStep == \E up \in BOOLEAN : GenerateRevert(up)
ModelMockStep == \E entries \in UsedEntryLists : SetMockSignals("A", entries)

\* Vehicle model generation with the command that fills the mock file
RevertStep == \E s \in Sessions : RevertVehicleModel(s)
RevertBodyStep == \E up \in BOOLEAN : RevertBody(up)

NextModel == GenerateStep \/ GenerateBodyStep \/ GenerateRevertStep
                 \/ RevertStep \/ RevertBodyStep
                 \/ ModelMockStep \/ BrokerFlip
SpecModel == Init /\ [][NextModel]_vars

\* The readiness prober on its own
NextProbe == WaitForDatabrokerReady
SpecProbe == InitProbe /\ [][NextProbe]_vars

ReportSubscribeStep == \E s \in Sessions : SubscribeApis(s, TRUE, <<>>)
ReportRunStep == RunPythonApp("A", "raw", "list", <<>>)

\* ticker_5s with the commands that change what it reports
NextReport == ReportTick \/ ReportNext \/ ReportSubscribeStep \/ UnsubscribeStep
                  \/ ReportRunStep
SpecReport == Init /\ [][NextReport]_vars

AppendReadStep == \E t \in Sessions, signals \in ApiLists : AppendRead(t, signals)
AppendWriteStep == \E t \in Sessions : AppendWrite(t)
ModifyOpenStep == \E t \in Sessions, entries \in EntryLists : ModifyOpen(t, entries)
ModifyWriteStep == \E t \in Sessions : ModifyWrite(t)
ListBetweenStep == \E t \in Sessions : ListBetween(t)

\* The store functions statement by statement, under the event loop
NextStore == AppendReadStep \/ AppendWriteStep \/ ModifyOpenStep \/ ModifyWriteStep
                 \/ ListBetweenStep \/ BrokerFlip
SpecStore == Init /\ [][NextStore]_vars

CheckForNewMocksStep == \E changed \in BOOLEAN : CheckForNewMocks(changed)
MainLoopRunStep ==
    \E consumed \in 0..MaxPending, animAfter \in BOOLEAN : MainLoopRun(consumed, animAfter)
OnDatapointUpdatedStep == \E ok, had \in BOOLEAN : OnDatapointUpdated(ok, had)
MockUpdateRequestHandlerStep == \E hasValue \in BOOLEAN : MockUpdateRequestHandler(hasValue)
PerfCounterStep == \E d \in SvcTimeSteps : PerfCounter(d)

\* The mock service
NextSvc == CheckForNewMocksStep \/ CheckIdleState \/ MainLoopRunStep
               \/ OnDatapointUpdatedStep \/ MockUpdateRequestHandlerStep
               \/ PerfCounterStep
SpecSvc == Init /\ [][NextSvc]_vars

\* ticker over both registries
NextSweep == ReportSubscribeStep \/ ReportRunStep \/ TickerStep \/ RunnerAdvanceStep
SpecSweep == Init /\ [][NextSweep]_vars

\* Subscriber registry with its expiry
NextSub == SubscribeStep \/ UnsubscribeStep \/ TickerStep \/ AdvanceStep \/ BrokerFlip
SpecSub == Init /\ [][NextSub]_vars

\* The two commands that start a runner
NextBin == RunStep \/ RunBinStep \/ RunBinResume
SpecBin == Init /\ [][NextBin]_vars

\* Runner registry with its expiry
NextRunner == RunStep \/ StopStep \/ ResumeStep \/ TickerStep \/ RunnerAdvanceStep
SpecRunner == Init /\ [][NextRunner]_vars

----------------------------------------------------------------------------
(* Claims on the registries *)

Owned(list, s) == { r \in Range(list) : r.request_from = s }

\* C1: once stop_python_app(session) has returned, with every kill() having
\* succeeded, no runner of the session is left in lsOfRunner, and the
\* handler removed runners of that session only.
C1_StopRemovesAllOfSession ==
    (lastCmd.cmd = "stop_python_app" /\ lastCmd.ret = "0" /\ ~stopRun.failed)
        => /\ Owned(lsOfRunner, lastCmd.from) = {}
           /\ \A r \in stopRun.removed : r.request_from = lastCmd.from

\* C2: subscribe_apis(session, S) leaves exactly one entry for the session,
\* whose list is S whatever list the session held before, and leaves the
\* entries of the other sessions as they were.
C2_ReplaceNotMerge ==
    [][ (lastCmd'.cmd = "subscribe_apis" /\ lastCmd'.arg # "None")
          => LET s == lastCmd'.from
                 d == lsOfApiSubscriber'
             IN  /\ Cardinality({ i \in 1..Len(d) : d[i].sid = s }) = 1
                 /\ \A i \in 1..Len(d) : d[i].sid = s => d[i].apis = lastCmd'.apis
                 /\ { e \in Range(d) : e.sid # s }
                        = { e \in Range(lsOfApiSubscriber) : e.sid # s } ]_vars

\* C2 witness: a second subscribe_apis of a session, with another list
C2_Witness ==
    /\ lastCmd.cmd = "subscribe_apis" /\ lastCmd.arg = "other"
    /\ lastCmd.apis = <<"Vehicle.Speed">>
    /\ Len(lsOfApiSubscriber) = 2

\* C3: unsubscribe_apis of a session without an entry does not raise and
\* leaves the registry as it was.
C3_UnsubscribeAbsentIsNoOp ==
    [][ (lastCmd'.cmd = "unsubscribe_apis" /\ lastCmd'.arg = "absent")
          => /\ lastCmd'.ret # "raise"
             /\ lsOfApiSubscriber' = lsOfApiSubscriber ]_vars

\* C4: a ticker run at time now keeps every subscriber entry with
\* now - from <= TIME_TO_KEEP_SUBSCRIBER_ALIVE and removes every entry with
\* now - from > TIME_TO_KEEP_SUBSCRIBER_ALIVE.
C4_SubscriberTtl ==
    [][ lastCmd'.cmd = "ticker"
          => \A e \in Range(lsOfApiSubscriber) :
                 /\ now - e.from <= TIME_TO_KEEP_SUBSCRIBER_ALIVE
                       => e \in Range(lsOfApiSubscriber')
                 /\ now - e.from > TIME_TO_KEEP_SUBSCRIBER_ALIVE
                       => e.sid \notin Keys(lsOfApiSubscriber') ]_vars

\* C4 witness: a ticker run that removed an entry and kept one whose age is
\* exactly the time to live
C4_Witness ==
    /\ lastCmd.cmd = "ticker" /\ lastCmd.arg = "swept"
    /\ \E e \in Range(lsOfApiSubscriber) :
           now - e.from = TIME_TO_KEEP_SUBSCRIBER_ALIVE

----------------------------------------------------------------------------
(* Claims on the mock signal file *)

\* What appendMockSignal reads from the file: an empty file counts as "[]"
CurMocks(file) == IF file.blank THEN <<>> ELSE file.mocks

ProviderFx(log) == SelectSeq(log, LAMBDA e : e \in {"stop", "start"})

\* C5: when every path a command offers is already in the mock file, the
\* command neither writes the file nor stops or starts the mock provider.
C5_OfferAllPresentIsNoOp ==
    [][ ( /\ lastCmd'.cmd = "subscribe_apis" /\ lastCmd'.arg # "None"
          /\ \A i \in 1..Len(lastCmd'.apis) :
                 lastCmd'.apis[i] \in MockNames(CurMocks(mockFile)) )
          => /\ fx' = <<>>
             /\ mockFile' = mockFile
             /\ providerUp' = providerUp ]_vars

\* C5 witness: a subscribe_apis with two paths, both in the file already
C5_Witness ==
    /\ lastCmd.cmd = "subscribe_apis" /\ lastCmd.arg # "None"
    /\ Len(lastCmd.apis) = 2
    /\ brokerUp
    /\ \A i \in 1..Len(lastCmd.apis) : lastCmd.apis[i] \in MockNames(CurMocks(mockFile))
    /\ fx = <<>>

\* C6: every set_mock_signals command stops the mock provider once and then
\* starts it once, whatever its entries.
C6_ReplaceRestartsOnce ==
    lastCmd.cmd = "set_mock_signals" => ProviderFx(fx) = <<"stop", "start">>

\* C10: set_mock_signals with entries E whose paths all have metadata,
\* followed by list_mock_signal, replies with exactly E.
C10_ReplaceListRoundTrip ==
    [][ ( /\ lastCmd.cmd = "set_mock_signals"
          /\ \A i \in 1..Len(lastCmd.data) : HasMetadata(lastCmd.data[i].signal)
          /\ lastCmd'.cmd = "list_mock_signal" )
          => replies' = <<ReplyData(lastCmd'.from, "list_mock_signal", "Successful",
                                    lastCmd.data)>> ]_vars

----------------------------------------------------------------------------
(* Claims on ticker_fast *)

\* C7: a ticker_fast round that finds the subscriber registry empty ends at
\* once: it reads no value from the databroker, emits no reply and goes
\* back to sleep without a connection attempt.
C7_EmptyRegistryNoRead ==
    [][ ( /\ lastCmd'.cmd = "ticker_fast"
          /\ poll.pc = "sleep"
          /\ Len(lsOfApiSubscriber) = 0 )
          => /\ pollReads' = 0
             /\ pollOut' = <<>>
             /\ replies' = <<>>
             /\ poll'.pc = "sleep" ]_vars

\* C7 witness: a round skipped on an empty registry while the client is
\* not connected
C7_Witness ==
    /\ lastCmd.cmd = "ticker_fast" /\ lastCmd.arg = "skip"
    /\ Len(lsOfApiSubscriber) = 0
    /\ ~connected
    /\ pollReads = 0 /\ pollOut = <<>>

\* C8: when a ticker_fast round with a connected client is over, every
\* subscriber that was in the registry throughout the round, for every
\* path it declares that the databroker knows and whose value did not
\* change meanwhile, has been sent a reply whose result maps the path to
\* its current value.
C8_SubscriberGetsValue ==
    (lastCmd.cmd = "ticker_fast" /\ lastCmd.arg \in {"done", "aborted"})
        => \A i \in 1..Len(lsOfApiSubscriber) :
               LET e == lsOfApiSubscriber[i]
               IN  (e.sid \notin pollSeen /\ "down" \notin pollSeen)
                       => \A k \in 1..Len(e.apis) :
                              (e.apis[k] \in Catalog /\ e.apis[k] \notin pollSeen)
                                  => \E j \in 1..Len(pollOut) :
                                         /\ pollOut[j].to = e.sid
                                         /\ Entry(e.apis[k], curVal[e.apis[k]])
                                                \in Range(pollOut[j].result)

----------------------------------------------------------------------------
(* Claims on generate_vehicle_model *)

GenFailedOnInput ==
    /\ lastCmd.cmd = "generate_vehicle_model" /\ lastCmd.arg = "reverted"
    /\ gen.input \in {"invalid", "malformed"}

\* C9 as stated: after a generation that failed on its specification and
\* the revert, the mock file, the vehicle package and vss.json are what
\* they were before the command.
C9_RevertRestoresPreCall ==
    GenFailedOnInput
        => /\ ~gen.touched => mockFile = gen.pre.store
           /\ vehicle = gen.pre.vehicle
           /\ vss = gen.pre.vss

\* C9: after a generation that failed on its specification and the revert,
\* the mock file is what it was before the command (no other command
\* having written it meanwhile), and the vehicle package and vss.json are
\* the bundled default ones, whatever they were before.
C9_RevertRestoresDefault ==
    GenFailedOnInput
        => /\ ~gen.touched => mockFile = gen.pre.store
           /\ vehicle = "default"
           /\ vss = "default"

\* C9 witness: a generated model was in place and the mock file held an
\* entry when the failing command arrived
C9_Witness ==
    /\ GenFailedOnInput
    /\ gen.input = "invalid"
    /\ ~gen.touched
    /\ gen.pre.vehicle = "custom"
    /\ Len(gen.pre.store.mocks) > 0
    /\ mockFile = gen.pre.store
    /\ vehicle = "default"

----------------------------------------------------------------------------
(* Claims on the dispatcher *)

\* C11: no exception leaves the handler of a recognized command: the
\* dispatcher returns 1 and has emitted an error reply to the requesting
\* session instead.
C11_NoExceptionLeavesDispatcher ==
    lastCmd.cmd \in RecognizedCmds
        => /\ lastCmd.ret # "raise"
           /\ (lastCmd.ret = "1" => \E i \in 1..Len(replies) :
                                        replies[i].to = lastCmd.from)

\* C12: a command whose cmd is none of the recognized values returns 1,
\* emits no reply and changes neither registry nor the mock file.
C12_UnknownCmdReturnsOne ==
    [][ (lastCmd'.cmd \in OtherCmds \ RecognizedCmds)
          => /\ lastCmd'.ret = "1"
             /\ replies' = <<>>
             /\ UNCHANGED <<lsOfApiSubscriber, lsOfRunner, mockFile>> ]_vars

\* C12 witness: an unknown cmd handled while the registry and the mock
\* file are not empty
C12_Witness ==
    /\ lastCmd.cmd = "bogus" /\ lastCmd.ret = "1"
    /\ replies = <<>>
    /\ Len(lsOfApiSubscriber) > 0
    /\ Len(CurMocks(mockFile)) > 0

\* C13: run_python_app without "code" in its payload and run_bin_app
\* without "data" in its envelope reply with an error to the requesting
\* session, return 1, spawn no process and append no runner.
C13_MissingFieldRejected ==
    [][ ( /\ lastCmd'.cmd \in {"run_python_app", "run_bin_app"}
          /\ lastCmd'.arg = "missing" )
          => /\ lastCmd'.ret = "1"
             /\ Len(replies') = 1
             /\ replies'[1].to = lastCmd'.from
             /\ replies'[1].cmd = lastCmd'.cmd
             /\ replies'[1].result \in {"Error: Missing code",
                                        "Error: Missing app name"}
             /\ UNCHANGED <<lsOfRunner, nextProc, binRun>> ]_vars

\* C13 witness: a run_bin_app without "data" rejected while runners exist
C13_Witness ==
    /\ lastCmd.cmd = "run_bin_app" /\ lastCmd.arg = "missing"
    /\ lastCmd.ret = "1"
    /\ Len(lsOfRunner) = 2
    /\ nextProc = 3

----------------------------------------------------------------------------
(* Claims on kill failures *)

\* C17: a runner on whose handle kill() raised, in stop_python_app or in
\* the sweep of ticker, is in lsOfRunner no more once that handler or
\* sweep is through.
C17_KillFailureStillRemoves ==
    ~stopRun.active => \A r \in Range(lsOfRunner) : r.runner \notin killRaised

----------------------------------------------------------------------------
(* Claims on generation failures and on the readiness prober *)

\* C14: a generate_vehicle_model whose generation or readiness check fails
\* emits the error reply for generate_vehicle_model to the requesting
\* session without raising, and the handler's next and last step is the
\* revert to the default vehicle package and vss.json, returning 0.
C14_FailureRepliesAndReverts ==
    [][ lastCmd'.cmd = "generate_vehicle_model"
          => /\ (gen.pc = "start" /\ (gen.input # "valid" \/ lastCmd'.arg = "failed"))
                    => /\ lastCmd'.arg = "failed"
                       /\ lastCmd'.ret = "await"
                       /\ replies' = <<Reply(gen.from, "generate_vehicle_model",
                                             "Error: generate_vehicle_model Failed")>>
                       /\ gen'.pc = "failed"
             /\ gen.pc = "failed"
                    => /\ vehicle' = "default"
                       /\ vss' = "default"
                       /\ lastCmd'.ret = "0"
                       /\ gen'.pc = "idle" ]_vars

\* C14 witness: a valid specification whose readiness check failed, after
\* the revert
C14_Witness ==
    /\ lastCmd.cmd = "generate_vehicle_model" /\ lastCmd.arg = "reverted"
    /\ gen.input = "valid"
    /\ gen.pre.vehicle = "custom"
    /\ vehicle = "default" /\ vss = "default"

AllRefused(given, n) == \A i \in 1..n : given[i] = "refused"

\* C15: wait_for_databroker_ready makes at most max_attempts probes; it
\* returns at the first probe that succeeds and raises its fatal error
\* when max_attempts probes in a row were refused.
C15_ProberTerminates ==
    probe.result # "-"
        => /\ probe.attempts <= probe.max
           /\ \A k \in 1..probe.max :
                  (AllRefused(probe.given, k - 1) /\ probe.given[k] = "ok")
                      => (probe.result = "ready" /\ probe.attempts = k)
           /\ AllRefused(probe.given, probe.max)
                  => (probe.result = "fatal" /\ probe.attempts = probe.max)

\* C15 witness: two attempts allowed, both refused
C15_Witness ==
    /\ probe.result = "fatal"
    /\ probe.max = 2 /\ probe.attempts = 2
    /\ probe.given[3] = "ok"

\* C16: a probe error other than a refusal is raised at once, with no
\* further probe; a refusal is never raised before max_attempts probes
\* were made and costs one sleep each.
C16_OnlyRefusalRetried ==
    probe.result # "-"
        => /\ \A k \in 1..probe.max :
                  (AllRefused(probe.given, k - 1) /\ probe.given[k] = "other")
                      => (probe.result = "error" /\ probe.attempts = k)
           /\ probe.result = "error" => probe.given[probe.attempts] = "other"
           /\ probe.result = "fatal"
                  => (probe.attempts = probe.max /\ probe.sleeps = probe.max)

\* C16 witness: a refusal, then another error, with attempts to spare
C16_Witness ==
    /\ probe.result = "error"
    /\ probe.max = 3 /\ probe.attempts = 2
    /\ probe.given[1] = "refused" /\ probe.given[3] = "ok"

----------------------------------------------------------------------------
(* Claims on ticker_5s *)

\* C18: a tick of ticker_5s emits only if there is a subscriber and the
\* serialized runner list or the subscriber count differs from what the
\* last emitting tick recorded, which it then records; a tick that finds
\* both as recorded emits nothing, so that ticks over unchanged
\* registries emit at most once.
C18_ReportOnlyOnChange ==
    [][ (lastCmd'.cmd = "ticker_5s" /\ report.pc = "sleep")
          => LET lstRunString == json_dumps(convertLsOfRunnerToJson(lsOfRunner))
                 noSubscriber == Len(lsOfApiSubscriber)
                 same == /\ report.lastLstRunString = lstRunString
                         /\ report.lastNoApiSubscriber = noSubscriber
             IN  /\ replies' # <<>> => (noSubscriber > 0 /\ ~same)
                 /\ same => (replies' = <<>> /\ report' = report)
                 /\ replies' # <<>>
                        => /\ report'.lastLstRunString = lstRunString
                           /\ report'.lastNoApiSubscriber = noSubscriber ]_vars

\* C18 witness: a tick that emitted nothing although subscribers and
\* runners exist, because both are as last reported
C18_Witness ==
    /\ lastCmd.cmd = "ticker_5s" /\ lastCmd.arg = "same"
    /\ Len(lsOfApiSubscriber) = 2
    /\ Len(lsOfRunner) > 0
    /\ replies = <<>>

----------------------------------------------------------------------------
(* Claims on the store functions *)

StoreCallsUnderWay == { t \in Sessions : storeCall[t].pc # "idle" }

\* C19: calls of appendMockSignal and modifyMockSignal never interleave
\* with each other or with another handler: at most one call is under
\* way, no other step happens inside it, an append writes what it read
\* from the file as the file still is (no update in between is lost), and
\* a replace leaves exactly its own entries.
C19_StoreCallsDoNotInterleave ==
    [][ /\ Cardinality(StoreCallsUnderWay') <= 1
        /\ StoreCallsUnderWay # {}
              => /\ lastCmd'.cmd \in {"appendMockSignal", "modifyMockSignal", "broker"}
                 /\ lastCmd'.cmd # "broker"
                       => (lastCmd'.arg = "written"
                              /\ lastCmd'.from \in StoreCallsUnderWay)
        /\ (lastCmd'.cmd = "appendMockSignal" /\ lastCmd'.arg = "written" /\ brokerUp)
              => mockFile' = appendMockSignal(lastCmd'.apis, mockFile, TRUE).file
        /\ (lastCmd'.cmd = "modifyMockSignal" /\ lastCmd'.arg = "written" /\ brokerUp)
              => mockFile' = modifyMockSignal(lastCmd'.data, TRUE).file ]_vars

\* C19 witness: an append by one session has just added a signal to a
\* file that holds what another call wrote before
C19_Witness ==
    /\ lastCmd.cmd = "appendMockSignal" /\ lastCmd.arg = "written"
    /\ lastCmd.apis = <<"Vehicle.Speed">>
    /\ ~mockFile.blank
    /\ Len(mockFile.mocks) = 2
    /\ mockFile.mocks[1].signal = "Vehicle.Width"
    /\ mockFile.mocks[2].signal = "Vehicle.Speed"

----------------------------------------------------------------------------
(* Claims on the survival of ticker_fast *)

\* C20: no connection error ends ticker_fast: the task is never left by
\* an exception, so it is there to try the connection again on the next
\* round that finds a subscriber and no connection.
C20_PollerSurvivesConnectionError == poll.pc # "dead"

----------------------------------------------------------------------------
(* Claims on ticker *)

\* C21: a step of ticker emits nothing on the channel, whether it removed
\* subscribers or runners or met a kill() that raised.
C21_SweeperNeverEmits == lastCmd.cmd = "ticker" => replies = <<>>

\* C21 witness: a sweep that removed a subscriber and met a failing kill()
C21_Witness ==
    /\ lastCmd.cmd = "ticker" /\ lastCmd.arg = "swept"
    /\ killRaised # {}
    /\ replies = <<>>

\* C25: after a step of ticker in which no kill() raised, no runner older
\* than TIME_TO_KEEP_RUNNER_ALIVE is left in lsOfRunner.
C25_SweepLeavesNoExpiredRunner ==
    (lastCmd.cmd = "ticker" /\ killRaised = {})
        => \A i \in 1..Len(lsOfRunner) :
               ~Expired(lsOfRunner[i].from, TIME_TO_KEEP_RUNNER_ALIVE)

----------------------------------------------------------------------------
(* Claims on the mock service *)

\* C22: the mock service starts non-idle; a call of _check_idle_state
\* changes the idle flag exactly when the service is non-idle and the time
\* since the last activity is greater than the idle threshold, and then
\* to idle; it never takes an idle service back to non-idle.
C22_IdleCheck ==
    /\ ~svc.is_idle
    /\ [][ lastCmd'.cmd = "_check_idle_state"
             => /\ (svc'.is_idle # svc.is_idle)
                      <=> ( /\ ~svc.is_idle
                            /\ svc.clock - svc.last_activity_time
                                   > MOCK_IDLE_THRESHOLD )
                /\ svc.is_idle => svc'.is_idle
                /\ svc'.last_activity_time = svc.last_activity_time ]_vars

\* C22 witness: an idle check has taken the service to idle one second
\* after the threshold
C22_Witness ==
    /\ lastCmd.cmd = "_check_idle_state"
    /\ svc.is_idle
    /\ svc.clock - svc.last_activity_time = MOCK_IDLE_THRESHOLD + 1

\* C23: a datapoint update, an update with a value from the databroker
\* (which queues exactly one event) and a reload of the configuration each
\* leave the service non-idle with the last activity time at the current
\* time, idle before or not.
C23_ActivityWakes ==
    [][ ( \/ lastCmd'.cmd = "_on_datapoint_updated"
          \/ (lastCmd'.cmd = "_mock_update_request_handler" /\ lastCmd'.arg = "value")
          \/ (lastCmd'.cmd = "check_for_new_mocks" /\ lastCmd'.arg = "reloaded") )
          => /\ ~svc'.is_idle
             /\ svc'.last_activity_time = svc.clock
             /\ svc'.clock = svc.clock
             /\ lastCmd'.cmd = "_mock_update_request_handler"
                    => svc'.pending = svc.pending + 1 ]_vars

\* C23 witness: an update from the databroker has taken an idle service
\* out of idle mode
C23_Witness ==
    /\ lastCmd.cmd = "_mock_update_request_handler" /\ lastCmd.arg = "value"
    /\ svc.exited
    /\ ~svc.is_idle
    /\ svc.last_activity_time = svc.clock /\ svc.clock > MOCK_IDLE_THRESHOLD

\* C24: an iteration of main_loop runs the behaviours and animations
\* exactly when the idle check returned non-idle or there were pending
\* events or active animations, and it sleeps the idle duration exactly
\* when the check returned idle and there were neither.
C24_MainLoopIteration ==
    [][ lastCmd'.cmd = "main_loop"
          => /\ svc'.executed
                    <=> (~svc.l_idle \/ svc.has_events \/ svc.has_animations)
             /\ (svc'.slept = "idle")
                    <=> (svc.l_idle /\ ~svc.has_events /\ ~svc.has_animations)
             /\ svc'.slept \in {"idle", "base"}
             /\ ~svc'.executed => (svc'.pending = svc.pending /\ svc'.anim = svc.anim) ]_vars

\* C24 witness: an idle service with a pending event has run its
\* behaviours and slept the base duration
C24_Witness ==
    /\ lastCmd.cmd = "main_loop"
    /\ svc.l_idle /\ svc.has_events /\ ~svc.has_animations
    /\ svc.executed /\ svc.slept = "base"

----------------------------------------------------------------------------
(* Claims on what ticker_5s and ticker_fast send *)

\* C26: a tick of ticker_5s that finds a subscriber and a runner list or
\* a subscriber map other than the ones of the last emitting tick emits
\* the summary event.
C26_ReportOnSnapshotChange ==
    [][ ( /\ lastCmd'.cmd = "ticker_5s" /\ report.pc = "sleep"
          /\ Len(lsOfApiSubscriber) > 0
          /\ \/ json_dumps(convertLsOfRunnerToJson(lsOfRunner))
                    # report.lastLstRunString
             \/ SafeApiSubscriber(lsOfApiSubscriber) # report.sent )
          => ( /\ Len(replies') = 1
               /\ replies'[1].to = "kit"
               /\ replies'[1].cmd = "report-runtime-state" ) ]_vars

\* The paths of a result map
ResultPaths(result) == { result[k].signal : k \in 1..Len(result) }

\* C27: when a ticker_fast round that no command or change fell into is
\* over, it has emitted exactly one reply per entry of lsOfApiSubscriber,
\* in order and to the entry's session, whose result holds exactly the
\* declared paths that the databroker could read.
C27_OneReplyPerSubscriber ==
    (lastCmd.cmd = "ticker_fast" /\ lastCmd.arg = "done" /\ pollMet = 0)
        => /\ Len(pollOut) = Len(lsOfApiSubscriber)
           /\ \A i \in 1..Len(pollOut) :
                  i <= Len(lsOfApiSubscriber)
                      => /\ pollOut[i].to = lsOfApiSubscriber[i].sid
                         /\ ResultPaths(pollOut[i].result)
                                = { p \in Range(lsOfApiSubscriber[i].apis) :
                                        brokerUp /\ p \in Catalog }

\* C28: a subscribe_apis, an unsubscribe_apis or a sweep that falls into a
\* round of ticker_fast or ticker_5s does not break the round: the loop
\* over lsOfApiSubscriber is never left by an error.
C28_RegistryChangeKeepsRound ==
    ~(lastCmd.cmd \in {"ticker_fast", "ticker_5s"} /\ lastCmd.arg = "aborted")

----------------------------------------------------------------------------
(* Claims on failures of the store functions and on the mock provider *)

\* C29: a call of appendMockSignal or modifyMockSignal that raises leaves
\* the entries of the mock file as they were before the call.
C29_FailedWriteKeepsStore ==
    [][ ( /\ lastCmd'.cmd \in {"appendMockSignal", "modifyMockSignal"}
          /\ lastCmd'.ret = "raise"
          /\ Len(CurMocks(mockFile)) > 0 )
          => (mockFile' = mockFile) ]_vars

\* C30: when the generate_vehicle_model handler has returned, the mock
\* provider that it stopped is started again, after a failed generation
\* and its revert as well.
C30_ProviderStartedAgain ==
    (lastCmd.cmd = "generate_vehicle_model" /\ lastCmd.ret = "0") => providerUp

----------------------------------------------------------------------------
(* Claims on the order of the steps of generate and revert *)

\* C31: a step of generate_vehicle_model or revert_vehicle_model that
\* starts the mock provider has stopped it first, has found the
\* databroker ready and has reset the mock file before the start.
C31_StartAfterReadyAndReset ==
    ( /\ lastCmd.cmd \in {"generate_vehicle_model", "revert_vehicle_model"}
      /\ "start" \in Range(fx) )
        => /\ brokerUp
           /\ \E i, j, k \in 1..Len(fx) :
                  /\ i < j /\ j < k
                  /\ fx[i] = "stop" /\ fx[j] = "write" /\ fx[k] = "start"

----------------------------------------------------------------------------
(* Claims on the removal of runners *)

\* C32: every runner that was spawned and is no longer in lsOfRunner has
\* had kill() called on its handle: stop_python_app and ticker never
\* remove an entry without the kill before it.
C32_RemovedOnlyAfterKill ==
    \A h \in 1..(nextProc - 1) : h \notin Handles(lsOfRunner) => h \in killed

\* C32 witness: a sweep has removed an expired runner after an earlier
\* stop_python_app removed another, and a third is still running
C32_Witness ==
    /\ lastCmd.cmd = "ticker"
    /\ Cardinality(killed) = 2
    /\ Len(lsOfRunner) = 1
    /\ now > TIME_TO_KEEP_RUNNER_ALIVE

----------------------------------------------------------------------------
(* Claims on the entries of the mock file *)

\* C33: no two entries of the mock file have the same path.
C33_PathsUnique ==
    \A i, j \in 1..Len(CurMocks(mockFile)) :
        i # j => CurMocks(mockFile)[i].signal # CurMocks(mockFile)[j].signal

\* C34: the offer of a subscribe_apis only appends: the entries of the
\* file before it stay a prefix, every appended entry has value "0" and a
\* path of the offer that was absent and that the databroker knows (with
\* a reachable databroker all such paths are appended, once each), and
\* the file is written and the provider restarted, once, exactly when an
\* entry was appended.
C34_OfferOnlyAppends ==
    [][ (lastCmd'.cmd = "subscribe_apis" /\ lastCmd'.arg # "None")
          => LET old  == CurMocks(mockFile)
                 new  == CurMocks(mockFile')
                 apis == Range(lastCmd'.apis)
             IN  /\ Len(new) >= Len(old)
                 /\ SubSeq(new, 1, Len(old)) = old
                 /\ \A k \in (Len(old) + 1)..Len(new) :
                        /\ new[k].value = "0"
                        /\ new[k].signal \in (apis \cap Catalog) \ MockNames(old)
                        /\ \A m \in (Len(old) + 1)..Len(new) :
                               m # k => new[m].signal # new[k].signal
                 /\ brokerUp => MockNames(new) = MockNames(old) \cup (apis \cap Catalog)
                 /\ (Len(new) > Len(old)) <=> (fx' = <<"write", "stop", "start">>)
                 /\ (Len(new) = Len(old)) => (fx' = <<>> /\ mockFile' = mockFile) ]_vars

\* C34 witness: an offer of Width and Speed to a file that held Speed with
\* value "1" has appended Width only
C34_Witness ==
    /\ lastCmd.cmd = "subscribe_apis"
    /\ lastCmd.apis = <<"Vehicle.Width", "Vehicle.Speed">>
    /\ mockFile.mocks = <<Entry("Vehicle.Speed", "1"), Entry("Vehicle.Width", "0")>>
    /\ fx = <<"write", "stop", "start">>

\* C35: after a set_mock_signals the mock file holds exactly the entries
\* of the command whose path the databroker knows, in the order given.
C35_ReplaceKeepsKnownInOrder ==
    [][ lastCmd'.cmd = "set_mock_signals"
          => mockFile' = [blank |-> FALSE,
                          mocks |-> SelectSeq(lastCmd'.data,
                                              LAMBDA e : HasMetadata(e.signal))] ]_vars

----------------------------------------------------------------------------
(* run_python_app with projects, run_bin_app, and their usedAPIs *)

ReturnCodes == {0, 1}

AppRunStep == \E s \in Sessions, payload \in Payloads, used \in UsedKinds :
                  RunPythonApp(s, payload, used, <<>>)
InstallStep == \E s \in Sessions, return_code \in ReturnCodes :
                   InstallDependencies(s, return_code)
RunPythonResumeStep == \E s \in Sessions : RunPythonResume(s)

\* run_python_app with raw code and with projects
NextApp == AppRunStep \/ InstallStep \/ RunPythonResumeStep
SpecApp == Init /\ [][NextApp]_vars

UseRunStep == \E s \in Sessions, used \in UsedKinds, usedAPIs \in UsedLists :
                  RunPythonApp(s, "raw", used, usedAPIs)
UseBinStep == \E s \in Sessions, used \in UsedKinds, usedAPIs \in UsedLists :
                  RunBinApp(s, TRUE, TRUE, used, usedAPIs)

\* The two commands that start a runner, with what usedAPIs can be and a
\* databroker that comes and goes
NextUse == UseRunStep \/ UseBinStep \/ RunBinResume \/ BrokerFlip
SpecUse == Init /\ [][NextUse]_vars

\* C36: once run_python_app or run_bin_app has come to the registration of
\* usedAPIs - with the databroker down, with unknown paths, with usedAPIs
\* absent from the envelope or not a list - the handler goes on: it spawns
\* the process, appends the runner of the requester and returns 0.
C36_RegistrationIsBestEffort ==
    [][ /\ ( /\ lastCmd'.cmd = "run_python_app"
             /\ lastCmd'.arg = "given"
             /\ lastCmd'.ret # "await" )
            => /\ lastCmd'.ret = "0"
               /\ Len(lsOfRunner') = Len(lsOfRunner) + 1
               /\ lsOfRunner'[Len(lsOfRunner')].request_from = lastCmd'.from
               /\ nextProc' = nextProc + 1
        /\ ( /\ lastCmd'.cmd = "run_bin_app"
             /\ lastCmd'.arg = "given"
             /\ binRun.active )
            => /\ lastCmd'.ret = "0"
               /\ Len(lsOfRunner') = Len(lsOfRunner) + 1
               /\ lsOfRunner'[Len(lsOfRunner')].request_from = lastCmd'.from
        /\ ( /\ lastCmd'.cmd = "run_bin_app"
             /\ lastCmd'.data # <<>> )
            => binRun'.active ]_vars

\* The same for run_bin_app alone, and for run_python_app wherever the
\* envelope carries usedAPIs
C36_BestEffortWhenPresent ==
    [][ /\ ( /\ lastCmd'.cmd = "run_python_app"
             /\ lastCmd'.arg = "given"
             /\ lastCmd'.ret # "await"
             /\ lastCmd'.data[2] # "absent" )
            => /\ lastCmd'.ret = "0"
               /\ Len(lsOfRunner') = Len(lsOfRunner) + 1
        /\ ( /\ lastCmd'.cmd = "run_bin_app"
             /\ lastCmd'.data # <<>> )
            => binRun'.active ]_vars

\* A run_python_app without usedAPIs that left by the KeyError
C36_AbsentRaises ==
    /\ lastCmd.cmd = "run_python_app"
    /\ lastCmd.ret = "raise"
    /\ lastCmd.data[2] = "absent"

C38_SpawnRunsOwnCode ==
    ( /\ lastCmd.cmd = "run_python_app"
      /\ lastCmd.arg = "given"
      /\ lastCmd.ret = "0" )
        => lastCmd.data[3] = lastCmd.from

\* The same for the commands that come to their spawn without suspending:
\* raw code, and a project without requirements.txt
C38_OwnCodeWithoutInstall ==
    ( /\ lastCmd.cmd = "run_python_app"
      /\ lastCmd.arg = "given"
      /\ lastCmd.ret = "0"
      /\ lastCmd.data[1] \in {"raw", "tree"} )
        => lastCmd.data[3] = lastCmd.from

----------------------------------------------------------------------------
(* Claims on the age of a subscriber *)

\* C39: a subscribe_apis of a session that has an entry leaves that entry
\* with "from" at the time of this subscribe_apis, and a sweep of ticker
\* removes no entry whose "from" lies TIME_TO_KEEP_SUBSCRIBER_ALIVE or less
\* back: the entry lives until more than that has passed since the latest
\* subscribe_apis of its session.
C39_ResubscribeResetsAge ==
    [][ /\ ( /\ lastCmd'.cmd = "subscribe_apis"
             /\ lastCmd'.arg \in {"same", "other"} )
            => \A i \in 1..Len(lsOfApiSubscriber') :
                   lsOfApiSubscriber'[i].sid = lastCmd'.from
                       => lsOfApiSubscriber'[i].from = now
        /\ lastCmd'.cmd = "ticker"
            => \A i \in 1..Len(lsOfApiSubscriber) :
                   now - lsOfApiSubscriber[i].from <= TIME_TO_KEEP_SUBSCRIBER_ALIVE
                       => \E j \in 1..Len(lsOfApiSubscriber') :
                              lsOfApiSubscriber'[j] = lsOfApiSubscriber[i] ]_vars

\* C39 witness: a sweep has run over two entries and kept both; the first,
\* older in the dict, has subscribed again after the second subscribed, and
\* the second is at the edge of its time
C39_Witness ==
    /\ lastCmd.cmd = "ticker"
    /\ Len(lsOfApiSubscriber) = 2
    /\ lsOfApiSubscriber[1].from > lsOfApiSubscriber[2].from
    /\ now - lsOfApiSubscriber[2].from = TIME_TO_KEEP_SUBSCRIBER_ALIVE

----------------------------------------------------------------------------
(* deploy_request *)

DeployStep == \E s \in Sessions, cmd \in DeployCmds, hasCode \in BOOLEAN :
                  DeployRequest(s, cmd, hasCode)
DeployResumeStep == \E s \in Sessions : DeployResume(s)

\* deploy_request handlers of the sessions, with subscribe_apis and the
\* sweep of ticker running between their stretches
NextDeploy == DeployStep \/ DeployResumeStep \/ ReportSubscribeStep \/ TickerStep
SpecDeploy == Init /\ [][NextDeploy]_vars

\* C40: every stretch of a deploy_request handler emits one reply to the
\* requester, the next of the fixed sequence, under the command's own name,
\* with is_finish false but for the last, and suspends after it; the last
\* stretch returns 0.
C40_DeployRepliesInOrder ==
    [][ lastCmd'.cmd \in DeployCmds
          => LET s == lastCmd'.from
                 k == work.dep[s].k + 1
                 last == k = Len(DeployReplies)
             IN  /\ replies' = <<AppDeployReply(s, DeployReplies[k], last, lastCmd'.cmd)>>
                 /\ lastCmd'.ret = IF last THEN "0" ELSE "await"
                 /\ work'.dep[s].k = IF last THEN 0 ELSE k ]_vars

\* The same for the envelopes that carry "code" at their top level
C40_InOrderWithCode ==
    [][ ( /\ lastCmd'.cmd \in DeployCmds
          /\ \/ work.dep[lastCmd'.from].hasCode
             \/ work'.dep[lastCmd'.from].hasCode )
          => LET s == lastCmd'.from
                 k == work.dep[s].k + 1
                 last == k = Len(DeployReplies)
             IN  /\ replies' = <<AppDeployReply(s, DeployReplies[k], last, lastCmd'.cmd)>>
                 /\ lastCmd'.ret = IF last THEN "0" ELSE "await"
                 /\ work'.dep[s].k = IF last THEN 0 ELSE k ]_vars

\* A deploy_request has sent its last reply while the handler of the other
\* session is between two of its replies
C40_DeployDone ==
    /\ lastCmd.cmd \in DeployCmds
    /\ lastCmd.ret = "0"
    /\ replies[1].is_finish
    /\ \E s \in Sessions : work.dep[s].k = 3

\* A deploy_request has left by the KeyError after its first reply
C40_DeployRaised ==
    /\ lastCmd.cmd \in DeployCmds
    /\ lastCmd.ret = "raise"

====
